---------------------------- MODULE Spec2Model ----------------------------
(***************************************************************************)
(* Trust & Audit core of the Clinomic backend (backend_v3/apps/core):      *)
(* JWT issue / rotation / revocation (authentication.py), MFA (mfa.py) and *)
(* the views that drive them (views.py).                                   *)
(*                                                                         *)
(* Request handlers run concurrently in Workers.  Every handler is cut at  *)
(* its database statements: one action is the code from one statement up   *)
(* to (not including) the next one, so that the interleavings of the model *)
(* are the interleavings of the statements under Django's autocommit.      *)
(*                                                                         *)
(* Strings are modelled by what the code does with them:                   *)
(*   a JWT is the record of its claims plus its signature state;           *)
(*   sha256(x) is the record [sha256 |-> x], which is never a JWT or code; *)
(*   uuid4 / random secrets are taken from the counter nextId (fresh);     *)
(*   a submitted MFA code is [kind, a, b]: a TOTP code of secret a at time *)
(*   step b, or backup code number b of batch a.                           *)
(***************************************************************************)
EXTENDS Integers, Sequences, FiniteSets, TLC

VARIABLES
    RefreshToken,   \* table refresh_tokens: sequence of rows, index = row id
    MFASettings,    \* table mfa_settings: one (possibly absent) row per user
    now,            \* the system clock
    nextId,         \* source of fresh values (uuid4, random_base32, token_hex)
    pc,             \* per worker: the statement its handler is about to run
    loc,            \* per worker: the handler's local variables
    resp,           \* per worker: the last response returned to the caller
    issued,         \* JWTs that have been returned to callers
    secrets,        \* TOTP secrets that have been returned to callers
    batches,        \* backup-code batches that have been returned to callers
    budget,         \* number of further requests the model accepts
    rotated,        \* history: row ids revoked by a rotation (refresh_tokens:186)
    lineage,        \* history: <<old row id, new row id>> of each rotation
    spent,          \* history: <<user, backup code, n>>: verify_code consumed
                    \* the code for the n-th time (mfa.py:155-157)
    replaced,       \* history: <<user, hash>>: a backup-code entry that was
                    \* stored when regenerate_backup_codes saved (mfa.py:203)
    encryption_key, \* settings.MASTER_ENCRYPTION_KEY
    cipher,         \* crypto._cipher: the key of the cached Fernet, or None
    crypto,         \* the outcome of the last call into crypto.py
    health,         \* the last response of HealthReadyView
    AuditLogEntry,  \* table audit_log_entries: rows in the order of insertion
    audit_lock,     \* per tenant: the append that holds its serialization
                    \* point, 0 when free
    audit_loc,      \* per appender: the append it is in the middle of
    tampered,       \* history: the entry that was changed or removed behind
                    \* the program's back, and how
    chain,          \* the last call of verify_chain and its result
    admin,          \* the last response of the admin site for audit entries
    User,           \* table users: the is_active flag of every user
    cascaded,       \* history: ids of the rows that a replay's cascading
                    \* revocation found stored (refresh_tokens:182)
    started,        \* history: <<row id, mfa_verified>> of the record and
                    \* the access token that a login issued (views.py:98-108)
    model_dir,      \* settings.ML_MODEL_DIR: the model files on disk
    engine,         \* ml_engine._engine: the singleton, or None
    prediction      \* the outcome of the last call of predict

vars == <<RefreshToken, MFASettings, now, nextId, pc, loc, resp, issued,
          secrets, batches, budget, rotated, lineage, spent, replaced,
          encryption_key, cipher, crypto, health,
          AuditLogEntry, audit_lock, audit_loc, tampered, chain, admin,
          User, cascaded, started, model_dir, engine, prediction>>

\* The state of crypto.py, and the state of everything else.
cryptoVars == <<encryption_key, cipher, crypto, health>>
auditVars == <<AuditLogEntry, audit_lock, audit_loc, tampered, chain, admin>>
mlVars == <<model_dir, engine, prediction>>
requestVars == <<RefreshToken, MFASettings, now, nextId, pc, loc, resp,
                 issued, secrets, batches, budget, rotated, lineage, spent,
                 replaced, User, cascaded, started>>
systemVars == <<requestVars, auditVars, mlVars>>

-----------------------------------------------------------------------------
(* Bounds of the model *)

MaxRequests == 4
MaxEnrolledRequests == 2

\* The clock stops at MaxTime; MaxClockRequests requests arrive while it runs.
MaxTime == 4
MaxClockRequests == 2

\* The audit log holds at most MaxEntries entries.
MaxEntries == 3

\* The positions in a batch of backup codes that callers pick codes from.
CodeChoices == {1, 2}

Workers == {1, 2}
Users == {"u1", "u2"}

-----------------------------------------------------------------------------
(* Values *)

NoUser == "none"

NoToken == [sub |-> NoUser, token_type |-> "none", mfa_verified |-> FALSE,
            jti |-> 0, exp |-> 0, sig |-> "none"]

\* Lifetimes in clock ticks of five minutes: the timedelta(minutes=5) of
\* create_mfa_pending_token is one tick.  JWT_ACCESS_TOKEN_LIFETIME and
\* JWT_REFRESH_TOKEN_LIFETIME are Django settings; the settings module is not
\* among the sources, so the values only keep access shorter than refresh.
JWT_ACCESS_TOKEN_LIFETIME == 2
JWT_REFRESH_TOKEN_LIFETIME == 3
MFA_PENDING_LIFETIME == 1

BACKUP_CODE_COUNT == 10

NoCode == [kind |-> "none", a |-> 0, b |-> 0]
WrongCode == [kind |-> "wrong", a |-> 0, b |-> 0]
TotpCode(secret, step) == [kind |-> "totp", a |-> secret, b |-> step]
BackupCode(batch, i) == [kind |-> "backup", a |-> batch, b |-> i]

\* hashlib.sha256(x.encode()).hexdigest(): injective, and its value is not x.
SHA256(x) == [sha256 |-> x]

\* jwt.encode(payload, settings.JWT_SECRET_KEY): the claims, validly signed.
jwt_encode(payload) == [payload EXCEPT !.sig = "ok"]


ForgedToken == [sub |-> "u1", token_type |-> "refresh", mfa_verified |-> TRUE,
                jti |-> 0, exp |-> JWT_REFRESH_TOKEN_LIFETIME, sig |-> "bad"]

\* A refresh token the service signed whose record is not in the table (the
\* record was deleted, with its user or by hand).
OrphanToken == [sub |-> "u2", token_type |-> "refresh", mfa_verified |-> FALSE,
                jti |-> 0, exp |-> JWT_REFRESH_TOKEN_LIFETIME, sig |-> "ok"]

\* What a caller can put in a request: any JWT it was ever handed, or one it
\* signed itself.
TokenInputs == issued \cup {ForgedToken}

-----------------------------------------------------------------------------
(* authentication.py: token construction and validation *)

create_access_token(user, mfa_verified, t) ==
    jwt_encode([sub |-> user, token_type |-> "access",
                mfa_verified |-> mfa_verified, jti |-> 0,
                exp |-> t + JWT_ACCESS_TOKEN_LIFETIME, sig |-> "none"])

\* Faulty variant: the pending token is minted with the access kind.
create_mfa_pending_token_AsAccess(user, t) ==
    jwt_encode([sub |-> user, token_type |-> "access",
                mfa_verified |-> FALSE, jti |-> 0,
                exp |-> t + MFA_PENDING_LIFETIME, sig |-> "none"])

create_mfa_pending_token(user, t) ==
    jwt_encode([sub |-> user, token_type |-> "mfa_pending",
                mfa_verified |-> FALSE, jti |-> 0,
                exp |-> t + MFA_PENDING_LIFETIME, sig |-> "none"])

\* The JWT of create_refresh_token (lines 80-91); jti is the fresh uuid4.
refresh_jwt(user, jti, t) ==
    jwt_encode([sub |-> user, token_type |-> "refresh",
                mfa_verified |-> FALSE, jti |-> jti,
                exp |-> t + JWT_REFRESH_TOKEN_LIFETIME, sig |-> "none"])

\* Faulty variant: the token itself is stored.
StoredHash_Raw(token) == token

\* What create_refresh_token stores in the token_hash column (line 92, 97).
StoredHash(token) == SHA256(token)

\* The row create_refresh_token inserts (lines 95-99).
refresh_row(user, token, t) ==
    [user |-> user, token_hash |-> StoredHash(token), is_revoked |-> FALSE,
     expires_at |-> t + JWT_REFRESH_TOKEN_LIFETIME]

\* Faulty variant: the exp claim is not verified.
jwt_decode_NoExpiry(token, t) ==
    IF token.sig # "ok" THEN "signature" ELSE "ok"

\* jwt.decode: the signature first, then the expiry.
jwt_decode(token, t) ==
    IF token.sig # "ok" THEN "signature"
    ELSE IF token.exp <= t THEN "expired"
    ELSE "ok"

\* payload.get('token_type', 'access')
ActualType(token) ==
    IF token.token_type = "none" THEN "access" ELSE token.token_type

\* Faulty variant: the token_type claim is not compared (lines 144-147 absent).
decode_token_AnyKind(token, token_type, t) == jwt_decode(token, t)

\* decode_token: "ok" (the payload is the token's claims), or the exception:
\* "expired" is jwt.ExpiredSignatureError; "signature" and "kind" are
\* jwt.InvalidTokenError, from jwt.decode and from line 146.
decode_token(token, token_type, t) ==
    IF jwt_decode(token, t) # "ok" THEN jwt_decode(token, t)
    ELSE IF ActualType(token) # token_type THEN "kind"
    ELSE "ok"

\* Faulty variant: a hash that is not stored finds the newest row.
LookupHash_Newest(rows, h) ==
    IF \E i \in DOMAIN rows : rows[i].token_hash = h
    THEN CHOOSE i \in DOMAIN rows : rows[i].token_hash = h
    ELSE Len(rows)

\* RefreshToken.objects.get(token_hash=h): the row id, 0 for DoesNotExist.
\* token_hash is unique.
LookupHash(rows, h) ==
    IF \E i \in DOMAIN rows : rows[i].token_hash = h
    THEN CHOOSE i \in DOMAIN rows : rows[i].token_hash = h
    ELSE 0

\* The key refresh_tokens and revoke_refresh_token look a token up by.
LookupKey(token) == SHA256(token)

\* Faulty variant: replay detection revokes nothing.
RevokeAllOfUser_None(rows, u) == rows

\* RefreshToken.objects.filter(user=u).update(is_revoked=True)
RevokeAllOfUser(rows, u) ==
    [i \in DOMAIN rows |->
        IF rows[i].user = u THEN [rows[i] EXCEPT !.is_revoked = TRUE]
        ELSE rows[i]]

\* stored_token.is_revoked = True; stored_token.save()
SaveRevoked(rows, id) == [rows EXCEPT ![id].is_revoked = TRUE]

\* Faulty variant: the filter lacks is_revoked=False.
revoke_refresh_token_NoFilter(rows, token) ==
    LET hit == {i \in DOMAIN rows : rows[i].token_hash = LookupKey(token)}
    IN [rows |-> [i \in DOMAIN rows |->
                    IF i \in hit THEN [rows[i] EXCEPT !.is_revoked = TRUE]
                    ELSE rows[i]],
        updated |-> hit # {}]

\* revoke_refresh_token: filter(token_hash=h, is_revoked=False)
\*                          .update(is_revoked=True); return updated > 0
revoke_refresh_token(rows, token) ==
    LET hit == {i \in DOMAIN rows : rows[i].token_hash = LookupKey(token)
                                    /\ ~rows[i].is_revoked}
    IN [rows |-> [i \in DOMAIN rows |->
                    IF i \in hit THEN [rows[i] EXCEPT !.is_revoked = TRUE]
                    ELSE rows[i]],
        updated |-> hit # {}]

-----------------------------------------------------------------------------
(* crypto.py and mfa.py *)

MASTER_ENCRYPTION_KEY == "k1"

\* The empty string, in a column that otherwise holds a Fernet ciphertext.
EmptyStr == [key |-> "", plain |-> 0]

\* encrypt_field: "" passes through; otherwise a ciphertext under the key.
encrypt_field(plaintext) ==
    IF plaintext = 0 THEN EmptyStr
    ELSE [key |-> MASTER_ENCRYPTION_KEY, plain |-> plaintext]

\* decrypt_field: "" passes through; -1 stands for CryptoError.
decrypt_field(ciphertext) ==
    IF ciphertext = EmptyStr THEN 0
    ELSE IF ciphertext.key = MASTER_ENCRYPTION_KEY THEN ciphertext.plain
    ELSE -1

----
(* crypto.py in full.  The handlers above call encrypt_field and            *)
(* decrypt_field with a valid key configured and base32 seeds as            *)
(* plaintexts; the definitions below follow the module statement by         *)
(* statement: the settings value, the cached cipher, str.encode and         *)
(* bytes.decode, and Fernet's authentication of a token.                    *)

\* Characters of a Python str: an ASCII letter, a letter that UTF-8 encodes
\* in two bytes (U+00E9), and a lone surrogate code point (U+D800), which a
\* str can hold (json.loads('"\\ud800"')) and UTF-8 cannot encode.
Chars == {"a", "E", "S"}

MaxPlainLen == 2

Plaintexts == UNION {[1..n -> Chars] : n \in 0..MaxPlainLen}

\* UnicodeEncodeError and UnicodeDecodeError.
EncodeError == <<-1>>
DecodeError == <<"error">>

\* str.encode() (crypto.py:55): UTF-8; a surrogate raises UnicodeEncodeError.
RECURSIVE utf8_encode(_)
utf8_encode(s) ==
    IF s = <<>> THEN <<>>
    ELSE IF Head(s) = "S" THEN EncodeError
    ELSE LET rest == utf8_encode(Tail(s))
         IN  IF rest = EncodeError THEN EncodeError
             ELSE (IF Head(s) = "a" THEN <<97>> ELSE <<195, 169>>) \o rest

\* A decoder of another codec (Latin-1): one character for every byte.
latin1_decode(b) == [i \in 1..Len(b) |-> IF b[i] = 97 THEN "a" ELSE "x"]

\* bytes.decode() (crypto.py:81): UTF-8; bytes that are no encoding of a
\* character raise UnicodeDecodeError.
RECURSIVE utf8_decode(_)
utf8_decode(b) ==
    IF b = <<>> THEN <<>>
    ELSE IF Head(b) = 97
         THEN LET rest == utf8_decode(Tail(b))
              IN  IF rest = DecodeError THEN DecodeError
                  ELSE <<"a">> \o rest
    ELSE IF Head(b) = 195 /\ Len(b) >= 2 /\ b[2] = 169
         THEN LET rest == utf8_decode(SubSeq(b, 3, Len(b)))
              IN  IF rest = DecodeError THEN DecodeError
                  ELSE <<"E">> \o rest
    ELSE DecodeError

\* Values of settings.MASTER_ENCRYPTION_KEY: unset (None or ""), a valid
\* Fernet key (32 bytes, url-safe base64), or a string Fernet() refuses.
NoKey == ""
FernetKeys == {"k1", "k2"}
KeySettings == {NoKey, "invalid"} \cup FernetKeys

\* _cipher = None.
NoCipher == "None"

\* The random IV of a token (os.urandom in Fernet.encrypt).
IVs == {0, 1}

\* A string handed to decrypt_field.  A Fernet token is written by the key
\* that signed it, its IV, the bytes it carries and the state of its HMAC;
\* "" and a string that is no token at all carry nothing.
EmptyCiphertext == [key |-> "", iv |-> 0, data |-> <<>>, mac |-> "empty"]
Malformed == [key |-> "", iv |-> 0, data |-> <<>>, mac |-> "malformed"]

\* Fernet(key).encrypt(data).
Fernet_encrypt(key, iv, data) ==
    [key |-> key, iv |-> iv, data |-> data, mac |-> "ok"]

\* A token with one character changed: its HMAC no longer verifies.
Tamper(token) == [token EXCEPT !.mac = "tampered"]

\* Fernet(key).decrypt(token): the bytes if the token's HMAC verifies under
\* key, otherwise InvalidToken.
InvalidToken == <<-2>>

\* A decryption without authentication: the bytes of any token.
Fernet_decrypt_Unauthenticated(key, token) ==
    IF token.mac \in {"ok", "tampered"} THEN token.data ELSE InvalidToken

Fernet_decrypt(key, token) ==
    IF token.mac = "ok" /\ token.key = key THEN token.data ELSE InvalidToken

\* Faulty variant: the test of lines 27-28 is absent, so an unset key goes to
\* Fernet(), which refuses it.
get_cipher_NoKeyTest(cached, key) ==
    IF cached # NoCipher THEN [cipher |-> cached, err |-> ""]
    ELSE IF key \notin FernetKeys
         THEN [cipher |-> NoCipher, err |-> "Invalid encryption key"]
    ELSE [cipher |-> key, err |-> ""]

\* _get_cipher, lines 22-34: the cached cipher if there is one; otherwise a
\* cipher for the settings key, cached; err is the CryptoError raised.
get_cipher(cached, key) ==
    IF cached # NoCipher THEN [cipher |-> cached, err |-> ""]
    ELSE IF key = NoKey
         THEN [cipher |-> NoCipher,
               err |-> "MASTER_ENCRYPTION_KEY not configured"]
    ELSE IF key \notin FernetKeys
         THEN [cipher |-> NoCipher, err |-> "Invalid encryption key"]
    ELSE [cipher |-> key, err |-> ""]

\* The outcome of a call: what it returned (text for decrypt_field, token
\* for encrypt_field), or the exception it raised and its message, and the
\* value of _cipher after the call.
NoCall == [fn |-> "", plaintext |-> <<>>, ciphertext |-> EmptyCiphertext,
           raised |-> "", message |-> "", text |-> <<>>,
           token |-> EmptyCiphertext, cipher |-> NoCipher,
           status |-> [configured |-> FALSE, ready |-> FALSE]]

Returned(fn, p, c, text, token, cached) ==
    [NoCall EXCEPT !.fn = fn, !.plaintext = p, !.ciphertext = c,
                   !.text = text, !.token = token, !.cipher = cached]

Raised(fn, p, c, message, cached) ==
    [NoCall EXCEPT !.fn = fn, !.plaintext = p, !.ciphertext = c,
                   !.raised = "CryptoError", !.message = message,
                   !.cipher = cached]

\* Faulty variant: the test of lines 50-51 is absent, so "" goes to the cipher.
crypto_encrypt_field_NoEmptyTest(cached, key, iv, plaintext) ==
    LET g == get_cipher(cached, key)
        data == utf8_encode(plaintext)
    IN  IF g.err # ""
        THEN Raised("encrypt_field", plaintext, EmptyCiphertext, g.err,
                    g.cipher)
        ELSE IF data = EncodeError
        THEN Raised("encrypt_field", plaintext, EmptyCiphertext,
                    "Encryption failed", g.cipher)
        ELSE Returned("encrypt_field", plaintext, EmptyCiphertext, <<>>,
                      Fernet_encrypt(g.cipher, iv, data), g.cipher)

\* encrypt_field, lines 37-60, called with _cipher = cached and the settings
\* key = key.
crypto_encrypt_field(cached, key, iv, plaintext) ==
    IF plaintext = <<>>
    THEN Returned("encrypt_field", plaintext, EmptyCiphertext, <<>>,
                  EmptyCiphertext, cached)
    ELSE LET g == get_cipher(cached, key)
             data == utf8_encode(plaintext)
         IN  IF g.err # ""
             THEN Raised("encrypt_field", plaintext, EmptyCiphertext, g.err,
                         g.cipher)
             ELSE IF data = EncodeError
             THEN Raised("encrypt_field", plaintext, EmptyCiphertext,
                         "Encryption failed", g.cipher)
             ELSE Returned("encrypt_field", plaintext, EmptyCiphertext, <<>>,
                           Fernet_encrypt(g.cipher, iv, data), g.cipher)

\* decrypt_field, lines 63-89.
crypto_decrypt_field(cached, key, ciphertext) ==
    IF ciphertext = EmptyCiphertext
    THEN Returned("decrypt_field", <<>>, ciphertext, <<>>, EmptyCiphertext,
                  cached)
    ELSE LET g == get_cipher(cached, key)
             data == Fernet_decrypt(g.cipher, ciphertext)
         IN  IF g.err # ""
             THEN Raised("decrypt_field", <<>>, ciphertext, g.err, g.cipher)
             ELSE IF data = InvalidToken
             THEN Raised("decrypt_field", <<>>, ciphertext,
                     "Decryption failed - data may be corrupted or key mismatch",
                     g.cipher)
             ELSE IF utf8_decode(data) = DecodeError
             THEN Raised("decrypt_field", <<>>, ciphertext,
                         "Decryption failed", g.cipher)
             ELSE Returned("decrypt_field", <<>>, ciphertext,
                           utf8_decode(data), EmptyCiphertext, g.cipher)

\* is_crypto_ready, lines 128-134: whether _get_cipher returns; the cipher it
\* builds on the way stays cached.
is_crypto_ready(cached, key) ==
    LET g == get_cipher(cached, key)
    IN  [ready |-> g.err = "", cipher |-> g.cipher]

\* get_crypto_status, lines 137-142.
get_crypto_status(cached, key) ==
    [configured |-> key # NoKey,
     ready |-> is_crypto_ready(cached, key).ready]

\* The response of HealthReadyView.get (views.py 345-383) when the database
\* check and the ML engine report db_ok and ml_ready: errors is filled by
\* those two checks only.
NoHealth == [status |-> "", code |-> 0, database |-> FALSE,
             ml_engine |-> FALSE,
             crypto |-> [configured |-> FALSE, ready |-> FALSE]]

HealthResponse(db_ok, ml_ready, crypto_status) ==
    LET errors == (IF db_ok THEN {} ELSE {"database"})
                      \cup (IF ml_ready THEN {} ELSE {"ml_engine"})
    IN  [status |-> IF errors # {} THEN "not ready" ELSE "ready",
         code |-> IF errors # {} THEN 503 ELSE 200,
         database |-> db_ok,
         ml_engine |-> ml_ready,
         crypto |-> crypto_status]

\* Strings a caller can hand to decrypt_field: "", a string that is no
\* token, and tokens of any key, intact or tampered with, that carry the
\* encoding of a text or bytes that are no UTF-8.
TokenData ==
    ({utf8_encode(p) : p \in Plaintexts} \ {<<>>, EncodeError}) \cup {<<195>>}
CiphertextInputs ==
    {EmptyCiphertext, Malformed}
        \cup {Fernet_encrypt(k, iv, d) :
                  k \in FernetKeys, iv \in IVs, d \in TokenData}
        \cup {Tamper(Fernet_encrypt(k, iv, d)) :
                  k \in FernetKeys, iv \in IVs, d \in TokenData}

----
(* The audit log.  models.py declares the table and admin.py its admin;     *)
(* the code that appends to it and verifies it is not among the sources,    *)
(* so append and verify_chain follow the specification's Audit Chain        *)
(* (sections 3, 4.4 and 5).                                                 *)

\* organization of models.py:188-193 (the tenant), and who appends.
Tenants == {"o1", "o2"}
Appenders == {1, 2}

\* Values of the columns the model varies.
Actors == {"u1", "system"}
AuditActions == {"login", "refresh"}

\* The previous hash of a tenant's first entry, H and MAC (section 3), and
\* the audit signing key of the process configuration.
GENESIS_HASH == <<"genesis">>
AUDIT_SIGNING_KEY == "test-audit-key"

EntryHash(previous_hash, actor, action, etype, eid, details, timestamp) ==
    <<"H", previous_hash, actor, action, etype, eid, details, timestamp>>

Sign(key, entry_hash) == <<"MAC", key, entry_hash>>

\* A row of audit_log_entries (models.py 184-222); its id is its position.
AuditRow(tenant, sequence, actor, action, previous_hash, t) ==
    LET h == EntryHash(previous_hash, actor, action, "user", actor, "{}", t)
    IN  [organization |-> tenant, sequence |-> sequence, actor |-> actor,
         action |-> action, entity_type |-> "user", entity_id |-> actor,
         details |-> "{}", previous_hash |-> previous_hash,
         entry_hash |-> h, signature |-> Sign(AUDIT_SIGNING_KEY, h),
         timestamp |-> t, ip_address |-> "10.0.0.1", user_agent |-> "ua"]

\* The rows of a tenant, and its last entry as an append reads it: the
\* highest sequence number and that entry's hash.
RowsOf(rows, tenant) ==
    {i \in DOMAIN rows : rows[i].organization = tenant}

LastSequence(rows, tenant) ==
    IF RowsOf(rows, tenant) = {} THEN 0
    ELSE CHOOSE n \in {rows[i].sequence : i \in RowsOf(rows, tenant)} :
             \A i \in RowsOf(rows, tenant) : rows[i].sequence <= n

LastHash(rows, tenant) ==
    IF RowsOf(rows, tenant) = {} THEN GENESIS_HASH
    ELSE LET i == CHOOSE j \in RowsOf(rows, tenant) :
                      rows[j].sequence = LastSequence(rows, tenant)
         IN  rows[i].entry_hash

NoAppend == [pc |-> "idle", tenant |-> "", actor |-> "", action |-> "",
             sequence |-> 0, previous_hash |-> GENESIS_HASH]

NoTamper == [tenant |-> "", sequence |-> 0, field |-> "", last |-> 0]

\* No call of verify_chain yet; result 0 is ok, otherwise first_broken_seq.
NoVerify == [tenant |-> "", from_seq |-> 0, to_seq |-> 0, result |-> 0]

NoAdmin == [op |-> "", user |-> "", status |-> 0]

AuditInit ==
    /\ AuditLogEntry = <<>>
    /\ audit_lock = [t \in Tenants |-> 0]
    /\ audit_loc = [a \in Appenders |-> NoAppend]
    /\ tampered = NoTamper
    /\ chain = NoVerify
    /\ admin = NoAdmin

\* Faulty variant: appends of a tenant are not serialized.
Serialized_Never(lock, tenant) == TRUE

\* The serialization point of a tenant (section 5, point 3): an append may
\* start when no other append of the tenant is between its read and its
\* insert.
Serialized(lock, tenant) == lock[tenant] = 0

\* The entries of a tenant with sequence number n, as row ids.
EntryAt(rows, tenant, n) ==
    {i \in RowsOf(rows, tenant) : rows[i].sequence = n}

\* The hash of an entry recomputed from its stored fields (section 3).
Recomputed(e) ==
    EntryHash(e.previous_hash, e.actor, e.action, e.entity_type, e.entity_id,
              e.details, e.timestamp)

\* Faulty variant: the stored signature is not compared.
Intact_Unsigned(rows, tenant, n) ==
    /\ Cardinality(EntryAt(rows, tenant, n)) = 1
    /\ LET e == rows[CHOOSE i \in EntryAt(rows, tenant, n) : TRUE]
       IN  /\ IF n = 1 THEN e.previous_hash = GENESIS_HASH
              ELSE \E j \in EntryAt(rows, tenant, n - 1) :
                       e.previous_hash = rows[j].entry_hash
           /\ e.entry_hash = Recomputed(e)

\* What verify_chain checks at sequence number n (section 4.4): there is
\* exactly one entry with that number, it is linked to the entry before it,
\* and its recomputed hash matches the stored hash and signature.
Intact(rows, tenant, n) ==
    /\ Cardinality(EntryAt(rows, tenant, n)) = 1
    /\ LET e == rows[CHOOSE i \in EntryAt(rows, tenant, n) : TRUE]
       IN  /\ IF n = 1 THEN e.previous_hash = GENESIS_HASH
              ELSE \E j \in EntryAt(rows, tenant, n - 1) :
                       e.previous_hash = rows[j].entry_hash
           /\ e.entry_hash = Recomputed(e)
           /\ e.signature = Sign(AUDIT_SIGNING_KEY, e.entry_hash)

\* verify_chain(tenant, from_seq, to_seq) -> ok | first_broken_seq, with 0
\* for ok.
verify_chain(rows, tenant, from_seq, to_seq) ==
    LET broken == {n \in from_seq..to_seq : ~Intact(rows, tenant, n)}
    IN  IF broken = {} THEN 0
        ELSE CHOOSE n \in broken : \A m \in broken : n <= m

----
(* screening/ml_engine.py: the two-stage B12 engine.  Probabilities and     *)
(* thresholds are in percent, CBC values in tenths, rule scores in halves.  *)

\* What a path of the model directory holds: nothing, bytes that do not
\* load, a pickled None, or a pickled classifier whose predict_proba gives
\* probability p to the second class.
Missing == [file |-> "missing", p |-> 0]
Corrupt == [file |-> "corrupt", p |-> 0]
PickledNone == [file |-> "none", p |-> 0]
Classifier(p) == [file |-> "classifier", p |-> p]

\* thresholds.json: no file, not JSON, {} or the three keys.
Thresholds(rule_weight, deficient, borderline) ==
    [file |-> "json", keys |-> TRUE, rule_weight |-> rule_weight,
     deficient_threshold |-> deficient, borderline_threshold |-> borderline]
EmptyThresholds ==
    [file |-> "json", keys |-> FALSE, rule_weight |-> 0,
     deficient_threshold |-> 0, borderline_threshold |-> 0]
MissingJson == [EmptyThresholds EXCEPT !.file = "missing"]
CorruptJson == [EmptyThresholds EXCEPT !.file = "corrupt"]

\* version.json: no file, not JSON, {} or {"version": ...}.
VersionFiles == {"missing", "corrupt", "{}", "2.1.0"}

Stage1Files == {Missing, Corrupt, PickledNone, Classifier(20), Classifier(90)}
Stage2Files == {Missing, Corrupt, PickledNone, Classifier(30), Classifier(80)}
ThresholdsFiles ==
    {MissingJson, CorruptJson, EmptyThresholds, Thresholds(50, 70, 40)}

ModelDirs ==
    [stage1 : Stage1Files, stage2 : Stage2Files,
     thresholds : ThresholdsFiles, version : VersionFiles]

EmptyModelDir ==
    [stage1 |-> Missing, stage2 |-> Missing, thresholds |-> MissingJson,
     version |-> "missing"]

\* None, as the value of an attribute of the engine.
None == [file |-> "None", p |-> 0]
NoError == ""

\* _engine = None, and the attributes __init__ sets (lines 33-40).
NoEngine ==
    [built |-> FALSE, stage1 |-> None, stage2 |-> None,
     thresholds |-> MissingJson, thresholds_loaded |-> FALSE,
     ready |-> FALSE, load_error |-> NoError, model_version |-> "unknown",
     model_artifact_hash |-> <<>>]

\* _compute_artifact_hash: the hash over the files that exist.
compute_artifact_hash(dir) ==
    <<"sha256",
      IF dir.stage1.file = "missing" THEN <<>> ELSE <<dir.stage1>>,
      IF dir.stage2.file = "missing" THEN <<>> ELSE <<dir.stage2>>,
      IF dir.thresholds.file = "missing" THEN <<>> ELSE <<dir.thresholds>>>>

\* joblib.load of a stage file: the object, or the exception.
Unpickled(f) == IF f.file = "none" THEN None ELSE f

LoadFailure(f) ==
    IF f.file = "missing" THEN "Model file not found"
    ELSE IF f.file = "corrupt" THEN "load failed"
    ELSE NoError

\* B12ClinicalEngine(model_dir): __init__ and _load_models (lines 32-77).
\* The attributes are assigned in the order of the code, so a load that
\* fails leaves the ones assigned before it.
load_models(dir) ==
    LET e0 == [NoEngine EXCEPT !.built = TRUE]
        e1 == [e0 EXCEPT !.stage1 = Unpickled(dir.stage1)]
        e2 == [e1 EXCEPT !.stage2 = Unpickled(dir.stage2)]
        e3 == [e2 EXCEPT !.thresholds = dir.thresholds,
                         !.thresholds_loaded = TRUE]
        e4 == IF dir.version = "missing" THEN e3
              ELSE [e3 EXCEPT !.model_version =
                        IF dir.version = "{}" THEN "1.0.0" ELSE dir.version]
        failed(e, f) == [e EXCEPT !.load_error = LoadFailure(f),
                                  !.ready = FALSE]
    IN  IF LoadFailure(dir.stage1) # NoError THEN failed(e0, dir.stage1)
        ELSE IF LoadFailure(dir.stage2) # NoError THEN failed(e1, dir.stage2)
        ELSE IF LoadFailure(dir.thresholds) # NoError
        THEN failed(e2, dir.thresholds)
        ELSE IF dir.version = "corrupt" THEN failed(e3, Corrupt)
        ELSE [e4 EXCEPT !.model_artifact_hash = compute_artifact_hash(dir),
                        !.ready = TRUE]

\* Faulty variant: only the flag is consulted.
is_ready_FlagOnly(e) == e.ready

\* The property is_ready (line 95).
is_ready(e) == e.ready /\ e.stage1 # None /\ e.stage2 # None

\* A CBC as predict reads it: a key that is absent counts as 0.
Cbc(Hb, RBC, MCV, RDW, WBC, Platelets) ==
    [Hb |-> Hb, RBC |-> RBC, MCV |-> MCV, RDW |-> RDW, WBC |-> WBC,
     Platelets |-> Platelets]

\* The samples of tests/conftest.py (whose keys Haemoglobin, RDW_CV and
\* Platelet are not the ones predict reads), and the same with those keys.
CbcInputs ==
    {Cbc(0, 0, 880, 0, 68, 0), Cbc(0, 0, 1080, 0, 35, 0),
     Cbc(145, 48, 880, 132, 68, 2450), Cbc(98, 25, 1080, 185, 35, 1450)}

\* add_indices (lines 109-119).
Mentzer13(row) == row.MCV > 13 * (IF row.RBC = 0 THEN 10 ELSE row.RBC)
Pancytopenia(row) == row.Hb < 120 /\ row.WBC < 40 /\ row.Platelets < 1500

\* apply_rules (lines 121-151): twice the score.
apply_rules(row) ==
      (IF row.MCV > 1000 THEN 2 ELSE 0)
    + (IF row.RDW > 150 THEN 2 ELSE 0)
    + (IF Mentzer13(row) THEN 2 ELSE 0)
    + (IF Pancytopenia(row) THEN 4 ELSE 0)
    - (IF row.MCV < 1000 /\ ~Pancytopenia(row) THEN 1 ELSE 0)
    - (IF row.Hb > 110 /\ row.Platelets > 1500 THEN 1 ELSE 0)
    - (IF row.MCV < 960 /\ row.RDW < 140 /\ row.Hb > 120 THEN 2 ELSE 0)

NoPrediction == [raised |-> "", riskClass |-> 0, labelText |-> ""]

Min(a, b) == IF a < b THEN a ELSE b
Max(a, b) == IF a > b THEN a ELSE b

\* predict (lines 153-250) on an engine e.
predict(e, cbc_dict) ==
    IF ~is_ready(e)
    THEN [NoPrediction EXCEPT !.raised = "MLModelNotReadyError"]
    ELSE LET p_abnormal == e.stage1.p
             p_def == IF p_abnormal > 30 THEN e.stage2.p ELSE 5
             t == e.thresholds
             rule_weight == IF t.keys THEN t.rule_weight ELSE 0
             deficient == IF t.keys THEN t.deficient_threshold ELSE 70
             borderline == IF t.keys THEN t.borderline_threshold ELSE 40
             adjust == (rule_weight * apply_rules(cbc_dict)) \div 2
             p_def_final == Min(100, Max(0, p_def + adjust))
         IN  IF p_def_final >= deficient
             THEN [NoPrediction EXCEPT !.riskClass = 3,
                                       !.labelText = "DEFICIENT"]
             ELSE IF p_def_final >= borderline
             THEN [NoPrediction EXCEPT !.riskClass = 2,
                                       !.labelText = "BORDERLINE"]
             ELSE [NoPrediction EXCEPT !.riskClass = 1,
                                       !.labelText = "NORMAL"]

MLInit ==
    /\ model_dir = EmptyModelDir
    /\ engine = NoEngine
    /\ prediction = NoPrediction

\* user.mfa_settings when no row exists (MFASettings.DoesNotExist), and the
\* column defaults of a row made by get_or_create.
NoRow == [exists |-> FALSE, is_enabled |-> FALSE, secret_key |-> EmptyStr,
          backup_codes |-> <<>>, verified_at |-> -1]
DefaultRow == [NoRow EXCEPT !.exists = TRUE]

\* Faulty variant: the code of any secret passes.
totp_verify_AnySecret(secret, code, t) ==
    /\ code.kind = "totp"
    /\ code.b \in {t - 1, t, t + 1}

\* pyotp.TOTP(secret).verify(code, valid_window=1)
totp_verify(secret, code, t) ==
    /\ code.kind = "totp"
    /\ code.a = secret
    /\ code.b \in {t - 1, t, t + 1}

\* MFAManager._generate_backup_codes: count fresh codes (batch is fresh).
generate_backup_codes(batch) ==
    [i \in 1..BACKUP_CODE_COUNT |-> BackupCode(batch, i)]

\* Faulty variant: the codes are stored as they are.
hashed_backup_codes_Plain(codes) ==
    [i \in DOMAIN codes |-> [hash |-> codes[i], used |-> FALSE]]

\* The stored form of a list of backup codes (verify_setup 117-120).
hashed_backup_codes(codes) ==
    [i \in DOMAIN codes |-> [hash |-> SHA256(codes[i]), used |-> FALSE]]

\* Faulty variant: any unused entry matches, whatever the code.
BackupMatches_AnyUnused(m, code) ==
    {i \in DOMAIN m.backup_codes : ~m.backup_codes[i].used}

\* The backup entries that verify_code's loop (153-154) can match.
BackupMatches(m, code) ==
    {i \in DOMAIN m.backup_codes :
        m.backup_codes[i].hash = SHA256(code) /\ ~m.backup_codes[i].used}

\* Faulty variant: verify_code without the is_enabled test of lines 140-141.
verify_code_NoEnabledTest(m, code, t) ==
    IF ~m.exists
    THEN [ok |-> FALSE, dirty |-> FALSE, mfa |-> m]
    ELSE IF totp_verify(decrypt_field(m.secret_key), code, t)
    THEN [ok |-> TRUE, dirty |-> FALSE, mfa |-> m]
    ELSE IF BackupMatches(m, code) # {}
    THEN LET i == CHOOSE j \in BackupMatches(m, code) :
                     \A k \in BackupMatches(m, code) : j <= k
         IN [ok |-> TRUE, dirty |-> TRUE,
             mfa |-> [m EXCEPT !.backup_codes[i].used = TRUE]]
    ELSE [ok |-> FALSE, dirty |-> FALSE, mfa |-> m]

\* MFAManager.verify_code on the loaded row m, up to its save():
\*   ok    - the value it returns,
\*   dirty - whether it reaches mfa_settings.save() (line 156),
\*   mfa   - the in-memory row it would save.
verify_code(m, code, t) ==
    IF ~m.exists \/ ~m.is_enabled
    THEN [ok |-> FALSE, dirty |-> FALSE, mfa |-> m]
    ELSE IF totp_verify(decrypt_field(m.secret_key), code, t)
    THEN [ok |-> TRUE, dirty |-> FALSE, mfa |-> m]
    ELSE IF BackupMatches(m, code) # {}
    THEN LET i == CHOOSE j \in BackupMatches(m, code) :
                     \A k \in BackupMatches(m, code) : j <= k
         IN [ok |-> TRUE, dirty |-> TRUE,
             mfa |-> [m EXCEPT !.backup_codes[i].used = TRUE]]
    ELSE [ok |-> FALSE, dirty |-> FALSE, mfa |-> m]

\* MFAManager.get_mfa_status(user)['enabled'] on the loaded row.
mfa_status_enabled(m) == m.exists /\ m.is_enabled

\* Faulty variant: regenerate_backup_codes accepts whatever verify_code does.
regenerate_check_AnyCode(m, code, t) == verify_code(m, code, t).ok

\* MFAManager.regenerate_backup_codes, lines 190-195: the TOTP check on the
\* loaded row (is_enabled is not consulted).
regenerate_check(m, code, t) ==
    totp_verify(decrypt_field(m.secret_key), code, t)

\* The MFA codes a caller can submit: a wrong one, the current TOTP code of a
\* secret it was handed or of the empty secret (pyotp.TOTP('') computes codes
\* like any other, and anyone can compute them), or one of the first
\* CodeChoices codes of a batch.
CodeInputs ==
    {WrongCode}
    \cup {TotpCode(s, now) : s \in secrets \cup {0}}
    \cup {BackupCode(b, i) : b \in batches, i \in CodeChoices}

-----------------------------------------------------------------------------
(* Handlers *)

NoLoc == [op |-> "none", user |-> NoUser, token |-> NoToken, code |-> NoCode,
          mfa |-> NoRow, row |-> 0, row_revoked |-> FALSE,
          mfa_verified |-> FALSE, secret |-> 0, batch |-> 0]

NoResp == [op |-> "none", status |-> 0, error |-> "", detail |-> "",
           user |-> NoUser,
           presented |-> NoToken, code |-> NoCode,
           access_token |-> NoToken, refresh_token |-> NoToken,
           mfa_pending_token |-> NoToken, mfa_required |-> FALSE,
           result |-> FALSE, secret |-> 0, batch |-> 0]

Init ==
    /\ RefreshToken = <<>>
    /\ MFASettings = [u \in Users |-> NoRow]
    /\ now = 0
    /\ nextId = 1
    /\ pc = [w \in Workers |-> "idle"]
    /\ loc = [w \in Workers |-> NoLoc]
    /\ resp = [w \in Workers |-> NoResp]
    /\ issued = {}
    /\ secrets = {}
    /\ batches = {}
    /\ budget = MaxRequests
    /\ rotated = {}
    /\ lineage = {}
    /\ spent = {}
    /\ replaced = {}
    /\ encryption_key = MASTER_ENCRYPTION_KEY
    /\ cipher = NoCipher
    /\ crypto = NoCall
    /\ health = NoHealth
    /\ AuditInit
    /\ User = [u \in Users |-> [is_active |-> TRUE]]
    /\ cascaded = {}
    /\ started = {}
    /\ MLInit

\* A request arrives and is given to the first idle worker (the workers are
\* interchangeable).
Accept(w) ==
    /\ pc[w] = "idle"
    /\ \A v \in Workers : pc[v] = "idle" => ~(v < w)
    /\ budget > 0
    /\ budget' = budget - 1

\* The handler of worker w returns response r.  Of a rejection the model
\* keeps the status and the message; of a success, the whole response.
Return(w, r) ==
    /\ pc' = [pc EXCEPT ![w] = "idle"]
    /\ loc' = [loc EXCEPT ![w] = NoLoc]
    /\ resp' = [resp EXCEPT ![w] = r]
    /\ UNCHANGED <<User, cryptoVars, auditVars, mlVars>>

\* The handler of worker w goes on to statement label with locals l.
Goto(w, label, l) ==
    /\ pc' = [pc EXCEPT ![w] = label]
    /\ loc' = [loc EXCEPT ![w] = l]
    /\ UNCHANGED resp
    /\ UNCHANGED <<User, cryptoVars, auditVars, mlVars>>

Error(op, status, error) ==
    [NoResp EXCEPT !.op = op, !.status = status, !.error = error]

----
(* refresh_tokens, called by TokenRefreshView.post *)

\* Lines 165-180: decode, hash, RefreshToken.objects.get, the revoked test.
refresh_tokens_get(w, token) ==
    /\ Accept(w)
    /\ LET d == decode_token(token, "refresh", now)
           id == LookupHash(RefreshToken, LookupKey(token))
           bad(e) == Error("refresh", 401, e)
       IN IF d = "expired" THEN Return(w, bad("Refresh token has expired"))
          ELSE IF d = "signature"
          THEN Return(w, bad("Invalid refresh token: Signature verification failed"))
          ELSE IF d = "kind"
          THEN Return(w, [bad("Invalid refresh token: Expected refresh token, got")
                            EXCEPT !.detail = ActualType(token)])
          ELSE IF id = 0 THEN Return(w, bad("Refresh token not found"))
          ELSE Goto(w, IF RefreshToken[id].is_revoked THEN "rt_replay"
                       ELSE "rt_save",
                    [NoLoc EXCEPT !.op = "refresh", !.token = token,
                                  !.user = RefreshToken[id].user, !.row = id,
                                  !.row_revoked = RefreshToken[id].is_revoked])
    /\ UNCHANGED <<cascaded, started, RefreshToken, MFASettings, now, nextId, issued, secrets,
                   batches, rotated, lineage, spent, replaced>>

\* Lines 181-183: the stored token was revoked: revoke all of the user's.
refresh_tokens_replay(w) ==
    /\ pc[w] = "rt_replay"
    /\ RefreshToken' = RevokeAllOfUser(RefreshToken, loc[w].user)
    /\ cascaded' = cascaded \cup {id \in DOMAIN RefreshToken :
                                     RefreshToken[id].user = loc[w].user}
    /\ UNCHANGED started
    /\ Return(w, [Error("refresh", 401, "Token has been revoked")
                    EXCEPT !.presented = loc[w].token, !.user = loc[w].user])
    /\ UNCHANGED <<MFASettings, now, nextId, issued, secrets, batches, budget,
                   rotated, lineage, spent, replaced>>

\* Lines 185-187: revoke the old token.
refresh_tokens_save(w) ==
    /\ pc[w] = "rt_save"
    /\ RefreshToken' = SaveRevoked(RefreshToken, loc[w].row)
    /\ rotated' = rotated \cup {loc[w].row}
    /\ Goto(w, "rt_create", loc[w])
    /\ UNCHANGED <<cascaded, started, MFASettings, now, nextId, issued, secrets, batches, budget,
                   lineage, spent, replaced>>

\* Lines 190-195: the new access token, and create_refresh_token's insert.
refresh_tokens_create(w) ==
    /\ pc[w] = "rt_create"
    /\ LET access == create_access_token(loc[w].user, TRUE, now)
           refresh == refresh_jwt(loc[w].user, nextId, now)
       IN /\ RefreshToken' =
                Append(RefreshToken, refresh_row(loc[w].user, refresh, now))
          /\ issued' = issued \cup {access, refresh}
          /\ Return(w, [NoResp EXCEPT !.op = "refresh", !.status = 200,
                               !.presented = loc[w].token,
                               !.user = loc[w].user,
                               !.access_token = access,
                               !.refresh_token = refresh])
    /\ nextId' = nextId + 1
    /\ lineage' = lineage \cup {<<loc[w].row, Len(RefreshToken) + 1>>}
    /\ UNCHANGED <<cascaded, started, MFASettings, now, secrets, batches, budget, rotated, spent, replaced>>

\* Line 193 raises (the insert fails): TokenRefreshView.post 180-184 turns any
\* exception into a 401.
refresh_tokens_create_fails(w) ==
    /\ pc[w] = "rt_create"
    /\ Return(w, [Error("refresh", 401, "create failed")
                    EXCEPT !.presented = loc[w].token, !.user = loc[w].user])
    /\ UNCHANGED <<cascaded, started, RefreshToken, MFASettings, now, nextId, issued, secrets,
                   batches, budget, rotated, lineage, spent, replaced>>

----
(* revoke_refresh_token, called by LogoutView.post *)

LogoutView_post(w, token) ==
    /\ Accept(w)
    /\ LET r == revoke_refresh_token(RefreshToken, token)
       IN /\ RefreshToken' = r.rows
          /\ Return(w, [NoResp EXCEPT !.op = "logout", !.status = 200,
                               !.presented = token, !.result = r.updated])
    /\ UNCHANGED <<cascaded, started, MFASettings, now, nextId, issued, secrets, batches,
                   rotated, lineage, spent, replaced>>

----
(* LoginView.post and MFAVerifyView.post *)

\* django.contrib.auth.authenticate: the user, when the password is right.
\* Callers either know the password or do not.
PasswordInputs == BOOLEAN

\* The mfa_code field of a login request: absent, or a code.
LoginCodeInputs == {NoCode} \cup CodeInputs

\* Lines 55-96: authenticate, get_mfa_status (which loads and caches
\* user.mfa_settings), and verify_code on that cached row up to its save().
LoginView_post(w, u, password_ok, mfa_code) ==
    /\ Accept(w)
    /\ LET m == MFASettings[u]
           v == verify_code(m, mfa_code, now)
           pending == create_mfa_pending_token(u, now)
           l == [NoLoc EXCEPT !.op = "login", !.user = u, !.code = mfa_code,
                              !.mfa_verified = mfa_status_enabled(m)]
       IN IF ~password_ok
          THEN /\ Return(w, Error("login", 401, "Invalid credentials"))
               /\ UNCHANGED issued
          ELSE IF ~User[u].is_active
          THEN /\ Return(w, Error("login", 401, "Account is disabled"))
               /\ UNCHANGED issued
          ELSE IF mfa_status_enabled(m) /\ mfa_code = NoCode
          THEN /\ Return(w, [NoResp EXCEPT !.op = "login", !.status = 200,
                                    !.user = u, !.mfa_required = TRUE,
                                    !.mfa_pending_token = pending])
               /\ issued' = issued \cup {pending}
          ELSE IF mfa_status_enabled(m) /\ ~v.ok
          THEN /\ Return(w, [Error("login", 401, "Invalid MFA code")
                               EXCEPT !.user = u, !.code = mfa_code])
               /\ UNCHANGED issued
          ELSE IF mfa_status_enabled(m) /\ v.dirty
          THEN /\ Goto(w, "vc_save", [l EXCEPT !.mfa = v.mfa])
               /\ UNCHANGED issued
          ELSE /\ Goto(w, "issue", l)
               /\ UNCHANGED issued
    /\ UNCHANGED <<cascaded, started, RefreshToken, MFASettings, now, nextId, secrets, batches,
                   rotated, lineage, spent, replaced>>

\* Lines 120-149: decode the pending token, load the user, verify_code up to
\* its save().
MFAVerifyView_post(w, pending_token, mfa_code) ==
    /\ Accept(w)
    /\ LET d == decode_token(pending_token, "mfa_pending", now)
           u == pending_token.sub
           v == verify_code(MFASettings[u], mfa_code, now)
           l == [NoLoc EXCEPT !.op = "mfa_verify", !.user = u,
                              !.token = pending_token, !.code = mfa_code,
                              !.mfa_verified = TRUE]
           bad(e) == Error("mfa_verify", 401, e)
       IN IF d # "ok" THEN Return(w, bad("Invalid or expired MFA token"))
          ELSE IF u \notin Users THEN Return(w, bad("User not found"))
          ELSE IF ~v.ok THEN Return(w, [bad("Invalid MFA code")
                                          EXCEPT !.user = u, !.code = mfa_code])
          ELSE IF v.dirty THEN Goto(w, "vc_save", [l EXCEPT !.mfa = v.mfa])
          ELSE Goto(w, "issue", l)
    /\ UNCHANGED <<cascaded, started, RefreshToken, MFASettings, now, nextId, issued, secrets,
                   batches, rotated, lineage, spent, replaced>>

\* mfa.py 155-157: backup['used'] = True; mfa_settings.save(), which writes
\* every column of the row as the handler loaded it.
verify_code_save(w) ==
    /\ pc[w] = "vc_save"
    /\ MFASettings' = [MFASettings EXCEPT ![loc[w].user] = loc[w].mfa]
    /\ spent' = spent \cup
         {<<loc[w].user, loc[w].code,
            1 + Cardinality({e \in spent : e[1] = loc[w].user
                                           /\ e[2] = loc[w].code})>>}
    /\ Goto(w, IF loc[w].op = "mfa_disable" THEN "dis_save" ELSE "issue",
            loc[w])
    /\ UNCHANGED <<cascaded, started, RefreshToken, now, nextId, issued, secrets, batches, budget,
                   rotated, lineage, replaced>>

\* views.py 98-108 and 151-161: create_access_token, create_refresh_token.
issue_tokens(w) ==
    /\ pc[w] = "issue"
    /\ LET access == create_access_token(loc[w].user, loc[w].mfa_verified, now)
           refresh == refresh_jwt(loc[w].user, nextId, now)
       IN /\ RefreshToken' =
                Append(RefreshToken, refresh_row(loc[w].user, refresh, now))
          /\ issued' = issued \cup {access, refresh}
          /\ Return(w, [NoResp EXCEPT !.op = loc[w].op, !.status = 200,
                               !.user = loc[w].user,
                               !.presented = loc[w].token,
                               !.code = loc[w].code,
                               !.access_token = access,
                               !.refresh_token = refresh])
    /\ nextId' = nextId + 1
    /\ started' = started \cup {<<Len(RefreshToken) + 1, loc[w].mfa_verified>>}
    /\ UNCHANGED <<cascaded, MFASettings, now, secrets, batches, budget, rotated, lineage, spent,
                   replaced>>

----
(* JWTAuthentication and the MFA enrollment views *)

\* JWTAuthentication.authenticate: the user of a valid access token, NoUser
\* when authentication fails.
authenticate(token, t) ==
    IF decode_token(token, "access", t) # "ok" THEN NoUser
    ELSE IF token.sub \notin Users THEN NoUser
    ELSE IF ~User[token.sub].is_active THEN NoUser
    ELSE token.sub

\* The 401 of a request that JWTAuthentication rejects (authentication.py
\* 32-45): it is raised before the view's handler runs, so it is the same for
\* every authenticated view; the message says why the token was refused.
AuthenticationFailed(token, t) ==
    LET d == decode_token(token, "access", t)
    IN  IF d = "expired" THEN Error("auth", 401, "Token has expired")
        ELSE IF d = "signature"
        THEN Error("auth", 401, "Invalid token: Signature verification failed")
        ELSE IF d = "kind"
        THEN [Error("auth", 401, "Invalid token: Expected access token, got")
                EXCEPT !.detail = ActualType(token)]
        ELSE IF token.sub \notin Users
        THEN Error("auth", 401, "User not found")
        ELSE Error("auth", 401, "User is inactive")

\* MFASetupView.post -> setup_mfa up to its save(): authenticate,
\* get_or_create (which inserts the default row when there is none), and the
\* in-memory assignments of lines 64-67.
MFASetupView_post(w, token) ==
    /\ Accept(w)
    /\ LET u == authenticate(token, now)
           row == IF MFASettings[u].exists THEN MFASettings[u] ELSE DefaultRow
       IN IF u = NoUser
          THEN /\ Return(w, AuthenticationFailed(token, now))
               /\ UNCHANGED <<MFASettings, nextId>>
          ELSE /\ MFASettings' = [MFASettings EXCEPT ![u] = row]
               /\ nextId' = nextId + 1
               /\ Goto(w, "setup_save",
                       [NoLoc EXCEPT !.op = "mfa_setup", !.user = u,
                                     !.token = token, !.secret = nextId,
                                     !.mfa = [row EXCEPT
                                         !.secret_key = encrypt_field(nextId),
                                         !.is_enabled = FALSE,
                                         !.verified_at = -1]])
    /\ UNCHANGED <<cascaded, started, RefreshToken, now, issued, secrets, batches, rotated,
                   lineage, spent, replaced>>

\* mfa.py 68-91: mfa_settings.save(), then the secret goes to the caller.
setup_mfa_save(w) ==
    /\ pc[w] = "setup_save"
    /\ MFASettings' = [MFASettings EXCEPT ![loc[w].user] = loc[w].mfa]
    /\ secrets' = secrets \cup {loc[w].secret}
    /\ Return(w, [NoResp EXCEPT !.op = "mfa_setup", !.status = 200,
                           !.user = loc[w].user, !.presented = loc[w].token,
                           !.secret = loc[w].secret])
    /\ UNCHANGED <<cascaded, started, RefreshToken, now, nextId, issued, batches, budget, rotated,
                   lineage, spent, replaced>>

\* MFAVerifySetupView.post -> verify_setup up to its save() (lines 101-123).
MFAVerifySetupView_post(w, token, code) ==
    /\ Accept(w)
    /\ LET u == authenticate(token, now)
           m == MFASettings[u]
           fresh == ~m.is_enabled
           bad(st, e) == Error("verify_setup", st, e)
       IN IF u = NoUser
          THEN /\ Return(w, AuthenticationFailed(token, now))
               /\ UNCHANGED nextId
          ELSE IF ~m.exists
          THEN /\ Return(w, bad(400, "MFA not initialized"))
               /\ UNCHANGED nextId
          ELSE IF ~totp_verify(decrypt_field(m.secret_key), code, now)
          THEN /\ Return(w, [bad(400, "Invalid code")
                               EXCEPT !.user = u, !.code = code])
               /\ UNCHANGED nextId
          ELSE /\ nextId' = IF fresh THEN nextId + 1 ELSE nextId
               /\ Goto(w, "vs_save",
                       [NoLoc EXCEPT
                          !.op = "verify_setup", !.user = u, !.token = token,
                          !.code = code,
                          !.batch = IF fresh THEN nextId ELSE 0,
                          !.mfa = [m EXCEPT
                             !.backup_codes =
                                 IF fresh
                                 THEN hashed_backup_codes(
                                          generate_backup_codes(nextId))
                                 ELSE m.backup_codes,
                             !.is_enabled = TRUE,
                             !.verified_at = now]])
    /\ UNCHANGED <<cascaded, started, RefreshToken, MFASettings, now, issued, secrets, batches,
                   rotated, lineage, spent, replaced>>

\* mfa.py 124-129: mfa_settings.save(), then the backup codes go to the caller.
verify_setup_save(w) ==
    /\ pc[w] = "vs_save"
    /\ MFASettings' = [MFASettings EXCEPT ![loc[w].user] = loc[w].mfa]
    /\ batches' = IF loc[w].batch = 0 THEN batches
                  ELSE batches \cup {loc[w].batch}
    /\ Return(w, [NoResp EXCEPT !.op = "verify_setup", !.status = 200,
                           !.user = loc[w].user, !.presented = loc[w].token,
                           !.code = loc[w].code, !.batch = loc[w].batch])
    /\ UNCHANGED <<cascaded, started, RefreshToken, now, nextId, issued, secrets, budget, rotated,
                   lineage, spent, replaced>>

----
(* MFADisableView and MFABackupCodesView *)

\* Faulty variant: the backup codes are left in the row.
cleared_KeepCodes(m) ==
    [m EXCEPT !.is_enabled = FALSE, !.secret_key = EmptyStr,
              !.verified_at = -1]

\* disable_mfa, lines 170-173: the assignments to the cached row.
cleared(m) ==
    [m EXCEPT !.is_enabled = FALSE, !.secret_key = EmptyStr,
              !.backup_codes = <<>>, !.verified_at = -1]

\* MFADisableView.post -> disable_mfa: authenticate, then verify_code (mfa.py
\* 166) on the row it loads, up to verify_code's save().
MFADisableView_post(w, token, code) ==
    /\ Accept(w)
    /\ LET u == authenticate(token, now)
           m == MFASettings[u]
           v == verify_code(m, code, now)
           l == [NoLoc EXCEPT !.op = "mfa_disable", !.user = u,
                              !.token = token, !.code = code, !.mfa = v.mfa]
       IN IF u = NoUser
          THEN Return(w, AuthenticationFailed(token, now))
          ELSE IF ~v.ok
          THEN Return(w, [Error("mfa_disable", 400, "Invalid code")
                            EXCEPT !.user = u, !.code = code])
          ELSE IF v.dirty THEN Goto(w, "vc_save", l)
          ELSE Goto(w, "dis_save", l)
    /\ UNCHANGED <<cascaded, started, RefreshToken, MFASettings, now, nextId, issued, secrets,
                   batches, rotated, lineage, spent, replaced>>

\* mfa.py 169-176: the cached row is cleared in memory and saved whole.
disable_mfa_save(w) ==
    /\ pc[w] = "dis_save"
    /\ MFASettings' = [MFASettings EXCEPT ![loc[w].user] = cleared(loc[w].mfa)]
    /\ Return(w, [NoResp EXCEPT !.op = "mfa_disable", !.status = 200,
                           !.user = loc[w].user, !.code = loc[w].code,
                           !.result = TRUE])
    /\ UNCHANGED <<cascaded, started, RefreshToken, now, nextId, issued, secrets, batches, budget,
                   rotated, lineage, spent, replaced>>

\* MFABackupCodesView.post -> regenerate_backup_codes up to its save()
\* (lines 186-202).
MFABackupCodesView_post(w, token, code) ==
    /\ Accept(w)
    /\ LET u == authenticate(token, now)
           m == MFASettings[u]
           bad(st, e) == Error("mfa_backup_codes", st, e)
       IN IF u = NoUser
          THEN /\ Return(w, AuthenticationFailed(token, now))
               /\ UNCHANGED nextId
          ELSE IF ~m.exists
          THEN /\ Return(w, bad(400, "MFA not configured"))
               /\ UNCHANGED nextId
          ELSE IF ~regenerate_check(m, code, now)
          THEN /\ Return(w, [bad(400, "Invalid TOTP code")
                               EXCEPT !.user = u, !.code = code])
               /\ UNCHANGED nextId
          ELSE /\ nextId' = nextId + 1
               /\ Goto(w, "regen_save",
                       [NoLoc EXCEPT
                          !.op = "mfa_backup_codes", !.user = u,
                          !.token = token, !.code = code, !.batch = nextId,
                          !.mfa = [m EXCEPT !.backup_codes =
                                     hashed_backup_codes(
                                         generate_backup_codes(nextId))]])
    /\ UNCHANGED <<cascaded, started, RefreshToken, MFASettings, now, issued, secrets, batches,
                   rotated, lineage, spent, replaced>>

\* mfa.py 203-205: mfa_settings.save(), then the new codes go to the caller.
regenerate_backup_codes_save(w) ==
    /\ pc[w] = "regen_save"
    /\ MFASettings' = [MFASettings EXCEPT ![loc[w].user] = loc[w].mfa]
    /\ batches' = batches \cup {loc[w].batch}
    /\ replaced' = replaced \cup
         {<<loc[w].user, MFASettings[loc[w].user].backup_codes[i].hash>> :
             i \in DOMAIN MFASettings[loc[w].user].backup_codes}
    /\ Return(w, [NoResp EXCEPT !.op = "mfa_backup_codes", !.status = 200,
                           !.user = loc[w].user, !.code = loc[w].code,
                           !.batch = loc[w].batch, !.result = TRUE])
    /\ UNCHANGED <<cascaded, started, RefreshToken, now, nextId, issued, secrets, budget, rotated,
                   lineage, spent>>

-----------------------------------------------------------------------------
(* The system *)

Next ==
    \/ \E w \in Workers, t \in TokenInputs : refresh_tokens_get(w, t)
    \/ \E w \in Workers : refresh_tokens_replay(w)
    \/ \E w \in Workers : refresh_tokens_save(w)
    \/ \E w \in Workers : refresh_tokens_create(w)
    \/ \E w \in Workers : refresh_tokens_create_fails(w)
    \/ \E w \in Workers, t \in TokenInputs : LogoutView_post(w, t)
    \/ \E w \in Workers, u \in Users, p \in PasswordInputs,
          c \in LoginCodeInputs : LoginView_post(w, u, p, c)
    \/ \E w \in Workers, t \in TokenInputs, c \in CodeInputs :
          MFAVerifyView_post(w, t, c)
    \/ \E w \in Workers : verify_code_save(w)
    \/ \E w \in Workers : issue_tokens(w)
    \/ \E w \in Workers, t \in TokenInputs : MFASetupView_post(w, t)
    \/ \E w \in Workers : setup_mfa_save(w)
    \/ \E w \in Workers, t \in TokenInputs, c \in CodeInputs :
          MFAVerifySetupView_post(w, t, c)
    \/ \E w \in Workers : verify_setup_save(w)
    \/ \E w \in Workers, t \in TokenInputs, c \in CodeInputs :
          MFADisableView_post(w, t, c)
    \/ \E w \in Workers : disable_mfa_save(w)
    \/ \E w \in Workers, t \in TokenInputs, c \in CodeInputs :
          MFABackupCodesView_post(w, t, c)
    \/ \E w \in Workers : regenerate_backup_codes_save(w)

Spec == Init /\ [][Next]_vars


----
(* The same system, started after user u1 has enrolled in MFA: the state    *)
(* Spec reaches by login(u1), MFASetupView.post and MFAVerifySetupView.post *)
(* with the right code, all on worker 1.                                      *)

EnrolledAccess == create_access_token("u1", FALSE, 0)
EnrolledRefresh == refresh_jwt("u1", 1, 0)

Enrolled ==
    /\ RefreshToken = <<refresh_row("u1", EnrolledRefresh, 0)>>
    /\ MFASettings =
         [u \in Users |->
            IF u = "u1"
            THEN [exists |-> TRUE, is_enabled |-> TRUE,
                  secret_key |-> encrypt_field(2),
                  backup_codes |->
                      hashed_backup_codes(generate_backup_codes(3)),
                  verified_at |-> 0]
            ELSE NoRow]
    /\ now = 0
    /\ nextId = 4
    /\ pc = [w \in Workers |-> "idle"]
    /\ loc = [w \in Workers |-> NoLoc]
    /\ resp = [w \in Workers |->
                 IF w = 1
                 THEN [NoResp EXCEPT !.op = "verify_setup", !.status = 200,
                                     !.user = "u1",
                                     !.presented = EnrolledAccess,
                                     !.code = TotpCode(2, 0), !.batch = 3]
                 ELSE NoResp]
    /\ issued = {EnrolledAccess, EnrolledRefresh}
    /\ secrets = {2}
    /\ batches = {3}
    /\ rotated = {}
    /\ lineage = {}
    /\ spent = {}
    /\ replaced = {}
    /\ encryption_key = MASTER_ENCRYPTION_KEY
    /\ cipher = NoCipher
    /\ crypto = NoCall
    /\ health = NoHealth
    /\ AuditInit
    /\ User = [u \in Users |-> [is_active |-> TRUE]]
    /\ cascaded = {}
    /\ started = {<<1, FALSE>>}
    /\ MLInit

InitEnrolled == Enrolled /\ budget = MaxEnrolledRequests

SpecEnrolled == InitEnrolled /\ [][Next]_vars

\* Enrolled is a state of Spec: TLC finds this violated under Spec.
EnrolledUnreachable == ~Enrolled


----
(* The same system when requests do not overlap: a request is accepted only *)
(* after the previous handler has returned.                                 *)

NextSeq == Next /\ Cardinality({w \in Workers : pc'[w] # "idle"}) <= 1

SpecEnrolledSeq == InitEnrolled /\ [][NextSeq]_vars

----
(* The same system while an administrator switches users off and on: the    *)
(* is_active field of UserAdmin's change form (admin.py 54).                *)

MaxAdminRequests == 2

UserAdmin_change(u, is_active) ==
    /\ is_active # User[u].is_active
    /\ User' = [User EXCEPT ![u].is_active = is_active]
    /\ UNCHANGED <<RefreshToken, MFASettings, now, nextId, pc, loc, resp,
                   issued, secrets, batches, budget, rotated, lineage, spent,
                   replaced, cascaded, started, cryptoVars, auditVars, mlVars>>

NextAdmin ==
    \/ Next
    \/ \E u \in Users, is_active \in BOOLEAN : UserAdmin_change(u, is_active)

InitAdmin == Enrolled /\ budget = MaxAdminRequests

SpecAdmin == InitAdmin /\ [][NextAdmin]_vars

----
(* The same system while the clock runs: the tokens that Enrolled has       *)
(* handed out are presented to the refresh endpoint and to an authenticated *)
(* view before and after they expire.                                       *)

\* Time passes (datetime.now, and the clock jwt.decode reads).
Tick ==
    /\ now < MaxTime
    /\ now' = now + 1
    /\ UNCHANGED <<RefreshToken, MFASettings, nextId, pc, loc, resp, issued,
                   secrets, batches, budget, rotated, lineage, spent,
                   replaced, User, cascaded, started, cryptoVars, auditVars, mlVars>>

NextClock ==
    \/ Tick
    \/ \E w \in Workers, t \in TokenInputs \cup {OrphanToken} :
          refresh_tokens_get(w, t)
    \/ \E w \in Workers : refresh_tokens_replay(w)
    \/ \E w \in Workers : refresh_tokens_save(w)
    \/ \E w \in Workers : refresh_tokens_create(w)
    \/ \E w \in Workers : refresh_tokens_create_fails(w)
    \/ \E w \in Workers, t \in TokenInputs : MFASetupView_post(w, t)
    \/ \E w \in Workers : setup_mfa_save(w)

InitClock == Enrolled /\ budget = MaxClockRequests

SpecClock == InitClock /\ [][NextClock]_vars

----
(* The audit log on its own: concurrent appends for the tenants, and the    *)
(* admin site.  The tables and the workers of the request handlers stay as  *)
(* Init leaves them.                                                        *)

InFlight == {a \in Appenders : audit_loc[a].pc # "idle"}

\* append(tenant, actor, action, ...), first half: wait for the tenant's
\* serialization point, then read the tenant's last entry.
audit_begin(a, tenant, actor, action) ==
    /\ audit_loc[a].pc = "idle"
    /\ \A b \in Appenders : audit_loc[b].pc = "idle" => ~(b < a)
    /\ tampered = NoTamper
    /\ Len(AuditLogEntry) + Cardinality(InFlight) < MaxEntries
    /\ Serialized(audit_lock, tenant)
    /\ audit_lock' = [audit_lock EXCEPT ![tenant] = a]
    /\ audit_loc' =
         [audit_loc EXCEPT ![a] =
             [pc |-> "commit", tenant |-> tenant, actor |-> actor,
              action |-> action,
              sequence |-> LastSequence(AuditLogEntry, tenant) + 1,
              previous_hash |-> LastHash(AuditLogEntry, tenant)]]
    /\ UNCHANGED <<AuditLogEntry, tampered, chain, admin, requestVars,
                 cryptoVars, mlVars>>

\* append, second half: insert the entry and leave the serialization point.
audit_commit(a) ==
    /\ audit_loc[a].pc = "commit"
    /\ LET l == audit_loc[a]
       IN  /\ AuditLogEntry' =
                Append(AuditLogEntry,
                       AuditRow(l.tenant, l.sequence, l.actor, l.action,
                                l.previous_hash, now))
           /\ audit_lock' = [audit_lock EXCEPT ![l.tenant] = 0]
    /\ audit_loc' = [audit_loc EXCEPT ![a] = NoAppend]
    /\ UNCHANGED <<tampered, chain, admin, requestVars, cryptoVars, mlVars>>

\* AuditLogEntryAdmin (admin.py 82-99).  request is the user of the request;
\* the ModelAdmin defaults grant a superuser every permission.
AdminUsers == {"superuser", "staff"}

has_add_permission(request) == FALSE

has_change_permission(request, obj) == FALSE

\* Faulty variant: the ModelAdmin default is not overridden.
has_delete_permission_Default(request, obj) == request = "superuser"

has_delete_permission(request, obj) == FALSE

\* The admin's add view: the form's entry is inserted when permitted,
\* otherwise PermissionDenied (403).
AuditLogEntryAdmin_add(request, tenant, actor, action) ==
    /\ Len(AuditLogEntry) < MaxEntries
    /\ IF has_add_permission(request)
       THEN /\ AuditLogEntry' =
                 Append(AuditLogEntry,
                        AuditRow(tenant,
                                 LastSequence(AuditLogEntry, tenant) + 1,
                                 actor, action,
                                 LastHash(AuditLogEntry, tenant), now))
            /\ admin' = [op |-> "add", user |-> request, status |-> 302]
       ELSE /\ admin' = [op |-> "add", user |-> request, status |-> 403]
            /\ UNCHANGED AuditLogEntry
    /\ UNCHANGED <<audit_lock, audit_loc, tampered, chain, requestVars,
                 cryptoVars, mlVars>>

\* The admin's change view for entry i: of the columns, organization,
\* ip_address and user_agent are not in readonly_fields (lines 87-90).
AuditLogEntryAdmin_change(request, i, ip_address) ==
    /\ i \in DOMAIN AuditLogEntry
    /\ IF has_change_permission(request, i)
       THEN /\ AuditLogEntry' =
                 [AuditLogEntry EXCEPT ![i].ip_address = ip_address]
            /\ admin' = [op |-> "change", user |-> request, status |-> 302]
       ELSE /\ admin' = [op |-> "change", user |-> request, status |-> 403]
            /\ UNCHANGED AuditLogEntry
    /\ UNCHANGED <<audit_lock, audit_loc, tampered, chain, requestVars,
                 cryptoVars, mlVars>>

\* The rows without row i.
WithoutRow(rows, i) ==
    [j \in 1..(Len(rows) - 1) |-> IF j < i THEN rows[j] ELSE rows[j + 1]]

\* The admin's delete view for entry i.
AuditLogEntryAdmin_delete(request, i) ==
    /\ i \in DOMAIN AuditLogEntry
    /\ IF has_delete_permission(request, i)
       THEN /\ AuditLogEntry' = WithoutRow(AuditLogEntry, i)
            /\ admin' = [op |-> "delete", user |-> request, status |-> 302]
       ELSE /\ admin' = [op |-> "delete", user |-> request, status |-> 403]
            /\ UNCHANGED AuditLogEntry
    /\ UNCHANGED <<audit_lock, audit_loc, tampered, chain, requestVars,
                 cryptoVars, mlVars>>

InitAudit ==
    /\ RefreshToken = <<>>
    /\ MFASettings = [u \in Users |-> NoRow]
    /\ now = 0
    /\ nextId = 1
    /\ pc = [w \in Workers |-> "idle"]
    /\ loc = [w \in Workers |-> NoLoc]
    /\ resp = [w \in Workers |-> NoResp]
    /\ issued = {}
    /\ secrets = {}
    /\ batches = {}
    /\ budget = 0
    /\ rotated = {}
    /\ lineage = {}
    /\ spent = {}
    /\ replaced = {}
    /\ encryption_key = MASTER_ENCRYPTION_KEY
    /\ cipher = NoCipher
    /\ crypto = NoCall
    /\ health = NoHealth
    /\ AuditInit
    /\ User = [u \in Users |-> [is_active |-> TRUE]]
    /\ cascaded = {}
    /\ started = {}
    /\ MLInit

NextAudit ==
    \/ \E a \in Appenders, t \in Tenants, actor \in Actors,
          action \in AuditActions : audit_begin(a, t, actor, action)
    \/ \E a \in Appenders : audit_commit(a)
    \/ \E r \in AdminUsers, t \in Tenants, actor \in Actors,
          action \in AuditActions : AuditLogEntryAdmin_add(r, t, actor, action)
    \/ \E r \in AdminUsers, i \in DOMAIN AuditLogEntry :
          AuditLogEntryAdmin_change(r, i, "10.6.6.6")
    \/ \E r \in AdminUsers, i \in DOMAIN AuditLogEntry :
          AuditLogEntryAdmin_delete(r, i)

SpecAudit == InitAudit /\ [][NextAudit]_vars

----
(* The audit log and the store under it: appends, changes made to the rows  *)
(* directly in the database, and verify_chain.                              *)

\* The columns of audit_log_entries (models.py 188-211) besides id.
AuditFields ==
    {"organization", "sequence", "actor", "action", "entity_type",
     "entity_id", "details", "previous_hash", "entry_hash", "signature",
     "timestamp", "ip_address", "user_agent"}

\* The values a column of row i may be changed to.
TamperValues(rows, i, field) ==
    LET others ==
          CASE field = "organization" -> Tenants
            [] field = "sequence" -> 1..(MaxEntries + 1)
            [] field = "actor" -> Actors
            [] field = "action" -> AuditActions
            [] field = "entity_type" -> {"user", "token"}
            [] field = "entity_id" -> Actors
            [] field = "details" -> {"{}", "{forged}"}
            [] field = "previous_hash" ->
                   {GENESIS_HASH} \cup {rows[j].entry_hash : j \in DOMAIN rows}
            [] field = "entry_hash" ->
                   {GENESIS_HASH} \cup {rows[j].entry_hash : j \in DOMAIN rows}
            [] field = "signature" ->
                   {Sign("attacker-key", rows[i].entry_hash)}
                       \cup {rows[j].signature : j \in DOMAIN rows}
            [] field = "timestamp" -> 0..1
            [] field = "ip_address" -> {"10.0.0.1", "10.6.6.6"}
            [] field = "user_agent" -> {"ua", "curl"}
    IN  {v \in others : v # rows[i][field]}

\* What is remembered of a change: the tenant and number of the entry
\* before the change, and the tenant's last number.
Tampered(rows, i, how) ==
    [tenant |-> rows[i].organization, sequence |-> rows[i].sequence,
     field |-> how, last |-> LastSequence(rows, rows[i].organization)]

\* UPDATE audit_log_entries SET field = value WHERE id = i.
tamper_field(i, field, value) ==
    /\ tampered = NoTamper
    /\ InFlight = {}
    /\ i \in DOMAIN AuditLogEntry
    /\ value \in TamperValues(AuditLogEntry, i, field)
    /\ AuditLogEntry' = [AuditLogEntry EXCEPT ![i][field] = value]
    /\ tampered' = Tampered(AuditLogEntry, i, field)
    /\ chain' = NoVerify
    /\ UNCHANGED <<audit_lock, audit_loc, admin, requestVars, cryptoVars, mlVars>>

\* DELETE FROM audit_log_entries WHERE id = i.
tamper_delete(i) ==
    /\ tampered = NoTamper
    /\ InFlight = {}
    /\ i \in DOMAIN AuditLogEntry
    /\ AuditLogEntry' = WithoutRow(AuditLogEntry, i)
    /\ tampered' = Tampered(AuditLogEntry, i, "deleted")
    /\ chain' = NoVerify
    /\ UNCHANGED <<audit_lock, audit_loc, admin, requestVars, cryptoVars, mlVars>>

\* Two entries of a tenant change places: each takes the other's number.
tamper_reorder(i, j) ==
    /\ tampered = NoTamper
    /\ InFlight = {}
    /\ i \in DOMAIN AuditLogEntry
    /\ j \in DOMAIN AuditLogEntry
    /\ i < j
    /\ AuditLogEntry[i].organization = AuditLogEntry[j].organization
    /\ AuditLogEntry' =
         [AuditLogEntry EXCEPT ![i].sequence = AuditLogEntry[j].sequence,
                               ![j].sequence = AuditLogEntry[i].sequence]
    /\ tampered' = Tampered(AuditLogEntry, i, "reordered")
    /\ chain' = NoVerify
    /\ UNCHANGED <<audit_lock, audit_loc, admin, requestVars, cryptoVars, mlVars>>

\* A call of verify_chain(tenant, from_seq, to_seq).
call_verify_chain(tenant, from_seq, to_seq) ==
    /\ from_seq <= to_seq
    /\ chain' = [tenant |-> tenant, from_seq |-> from_seq, to_seq |-> to_seq,
                 result |-> verify_chain(AuditLogEntry, tenant, from_seq,
                                         to_seq)]
    /\ UNCHANGED <<AuditLogEntry, audit_lock, audit_loc, tampered, admin,
                   requestVars, cryptoVars, mlVars>>

NextAuditStore ==
    \/ \E a \in Appenders, t \in Tenants, actor \in Actors :
          audit_begin(a, t, actor, "login")
    \/ \E a \in Appenders : audit_commit(a)
    \/ \E i \in DOMAIN AuditLogEntry, field \in AuditFields :
          \E value \in TamperValues(AuditLogEntry, i, field) :
              tamper_field(i, field, value)
    \/ \E i \in DOMAIN AuditLogEntry : tamper_delete(i)
    \/ \E i \in DOMAIN AuditLogEntry, j \in DOMAIN AuditLogEntry :
          tamper_reorder(i, j)
    \/ \E t \in Tenants, from_seq \in 1..2, to_seq \in 1..MaxEntries :
          call_verify_chain(t, from_seq, to_seq)

SpecAuditStore == InitAudit /\ [][NextAuditStore]_vars

----
(* crypto.py on its own: a process whose settings carry any value of        *)
(* MASTER_ENCRYPTION_KEY, callers of encrypt_field and decrypt_field, and   *)
(* what the tests do to the module: override_settings and the reset of      *)
(* crypto._cipher.  The tables and the workers stay as Init leaves them.    *)

InitCrypto ==
    /\ RefreshToken = <<>>
    /\ MFASettings = [u \in Users |-> NoRow]
    /\ now = 0
    /\ nextId = 1
    /\ pc = [w \in Workers |-> "idle"]
    /\ loc = [w \in Workers |-> NoLoc]
    /\ resp = [w \in Workers |-> NoResp]
    /\ issued = {}
    /\ secrets = {}
    /\ batches = {}
    /\ budget = 0
    /\ rotated = {}
    /\ lineage = {}
    /\ spent = {}
    /\ replaced = {}
    /\ encryption_key \in KeySettings
    /\ cipher = NoCipher
    /\ crypto = NoCall
    /\ health = NoHealth
    /\ AuditInit
    /\ User = [u \in Users |-> [is_active |-> TRUE]]
    /\ cascaded = {}
    /\ started = {}
    /\ MLInit

\* A call of encrypt_field(plaintext); iv is Fernet's random IV.
call_encrypt_field(plaintext, iv) ==
    /\ crypto' = crypto_encrypt_field(cipher, encryption_key, iv, plaintext)
    /\ cipher' = crypto'.cipher
    /\ UNCHANGED <<encryption_key, health, systemVars>>

\* A call of decrypt_field(ciphertext).
call_decrypt_field(ciphertext) ==
    /\ crypto' = crypto_decrypt_field(cipher, encryption_key, ciphertext)
    /\ cipher' = crypto'.cipher
    /\ UNCHANGED <<encryption_key, health, systemVars>>

\* override_settings(MASTER_ENCRYPTION_KEY=key): the setting changes in the
\* running process; crypto._cipher is not touched.
override_settings(key) ==
    /\ key # encryption_key
    /\ encryption_key' = key
    /\ UNCHANGED <<cipher, crypto, health, systemVars>>

\* The fixture of the tests: crypto._cipher = None.
reset_cipher ==
    /\ cipher # NoCipher
    /\ cipher' = NoCipher
    /\ UNCHANGED <<encryption_key, crypto, health, systemVars>>

\* A call of get_crypto_status().
call_get_crypto_status ==
    /\ crypto' = [NoCall EXCEPT
                     !.fn = "get_crypto_status",
                     !.status = get_crypto_status(cipher, encryption_key),
                     !.cipher = is_crypto_ready(cipher, encryption_key).cipher]
    /\ cipher' = crypto'.cipher
    /\ UNCHANGED <<encryption_key, health, systemVars>>

\* GET /api/health/ready.
HealthReadyView_get(db_ok, ml_ready) ==
    /\ health' = HealthResponse(db_ok, ml_ready,
                                get_crypto_status(cipher, encryption_key))
    /\ cipher' = is_crypto_ready(cipher, encryption_key).cipher
    /\ UNCHANGED <<encryption_key, crypto, systemVars>>

NextCrypto ==
    \/ \E p \in Plaintexts, iv \in IVs : call_encrypt_field(p, iv)
    \/ \E c \in CiphertextInputs : call_decrypt_field(c)
    \/ \E k \in KeySettings : override_settings(k)
    \/ reset_cipher
    \/ call_get_crypto_status

SpecCrypto == InitCrypto /\ [][NextCrypto]_vars

\* The readiness probe of such a process, whose key setting and cipher
\* cache change as above.
NextHealth ==
    \/ \E db_ok \in BOOLEAN, ml_ready \in BOOLEAN :
          HealthReadyView_get(db_ok, ml_ready)
    \/ call_get_crypto_status
    \/ \E k \in KeySettings : override_settings(k)
    \/ reset_cipher

SpecHealth == InitCrypto /\ [][NextHealth]_vars

----
(* ml_engine.py on its own: a process started over any model directory.     *)

InitML ==
    /\ RefreshToken = <<>>
    /\ MFASettings = [u \in Users |-> NoRow]
    /\ now = 0
    /\ nextId = 1
    /\ pc = [w \in Workers |-> "idle"]
    /\ loc = [w \in Workers |-> NoLoc]
    /\ resp = [w \in Workers |-> NoResp]
    /\ issued = {}
    /\ secrets = {}
    /\ batches = {}
    /\ budget = 0
    /\ rotated = {}
    /\ lineage = {}
    /\ spent = {}
    /\ replaced = {}
    /\ encryption_key = MASTER_ENCRYPTION_KEY
    /\ cipher = NoCipher
    /\ crypto = NoCall
    /\ health = NoHealth
    /\ AuditInit
    /\ User = [u \in Users |-> [is_active |-> TRUE]]
    /\ cascaded = {}
    /\ started = {}
    /\ model_dir \in ModelDirs
    /\ engine = NoEngine
    /\ prediction = NoPrediction

\* get_ml_engine (lines 258-264): the singleton is built on first use.
get_ml_engine ==
    /\ engine' = IF engine.built THEN engine ELSE load_models(model_dir)
    /\ UNCHANGED <<model_dir, prediction, requestVars, auditVars, cryptoVars>>

\* predict_async(cbc_dict) (lines 278-287): get_ml_engine, then
\* engine.predict.
predict_async(cbc_dict) ==
    /\ engine' = IF engine.built THEN engine ELSE load_models(model_dir)
    /\ prediction' = predict(engine', cbc_dict)
    /\ UNCHANGED <<model_dir, requestVars, auditVars, cryptoVars>>

NextML ==
    \/ get_ml_engine
    \/ \E cbc_dict \in CbcInputs : predict_async(cbc_dict)

SpecML == InitML /\ [][NextML]_vars

-----------------------------------------------------------------------------
(* Properties *)

\* The row id of the record stored for a refresh token, 0 when there is none.
RowOf(token) == LookupHash(RefreshToken, SHA256(token))

IsRefreshOk(r) == r.op = "refresh" /\ r.status = 200
IsReplay(r) == r.op = "refresh" /\ r.error = "Token has been revoked"

\* C1, lookup: a rotation whose lookup finds the record revoked takes the
\* replay path, one that finds it live takes the rotation path.
C1_Lookup(w) ==
    (pc[w] = "idle" /\ pc'[w] \in {"rt_replay", "rt_save"}) =>
        (RefreshToken[loc'[w].row].is_revoked <=> pc'[w] = "rt_replay")

\* C1, replay: the replay path rejects, hands out no token, and leaves every
\* record of the principal revoked.
C1_Replay(w) ==
    (pc[w] = "rt_replay" /\ pc'[w] = "idle") =>
        /\ resp'[w].status = 401
        /\ resp'[w].access_token = NoToken
        /\ resp'[w].refresh_token = NoToken
        /\ issued' = issued
        /\ Len(RefreshToken') = Len(RefreshToken)
        /\ \A i \in DOMAIN RefreshToken :
              RefreshToken[i].user = loc[w].user => RefreshToken'[i].is_revoked

\* C1, success: a rotation that succeeds returns a fresh access token and a
\* fresh refresh token of the principal, whose record is live.
C1_Success(w) ==
    (pc[w] = "rt_create" /\ pc'[w] = "idle" /\ resp'[w].status = 200) =>
        /\ resp'[w].access_token.token_type = "access"
        /\ resp'[w].access_token.sub = loc[w].user
        /\ resp'[w].refresh_token.token_type = "refresh"
        /\ resp'[w].refresh_token.sub = loc[w].user
        /\ resp'[w].refresh_token \notin issued
        /\ LET id == LookupHash(RefreshToken', SHA256(resp'[w].refresh_token))
           IN /\ id \notin DOMAIN RefreshToken
              /\ id \in DOMAIN RefreshToken'
              /\ ~RefreshToken'[id].is_revoked

\* C1, consumed: the token of a rotation that succeeded is revoked.
C1_Consumed ==
    \A w \in Workers :
        IsRefreshOk(resp[w]) =>
            /\ RowOf(resp[w].presented) # 0
            /\ RefreshToken[RowOf(resp[w].presented)].is_revoked

\* C1: rotating a refresh token succeeds the first time and returns fresh
\* tokens; presenting the token again (its record is revoked by then) is
\* rejected as a replay, which revokes every refresh-token record of the
\* principal, so that a rotation with any of them is rejected as well.
C1_RotateTwice ==
    /\ []C1_Consumed
    /\ [][\A w \in Workers : C1_Lookup(w) /\ C1_Replay(w) /\ C1_Success(w)]_vars

\* A replay has been rejected, and the cascade revoked the record that the
\* first rotation of the replayed token had issued.
C1_Witness ==
    \E w \in Workers :
        /\ IsReplay(resp[w])
        /\ \E i \in DOMAIN RefreshToken :
              /\ <<RowOf(resp[w].presented), i>> \in lineage
              /\ RefreshToken[i].user = resp[w].user
              /\ RefreshToken[i].is_revoked

\* C2: of the rotations that present the same refresh token, at most one
\* succeeds (the others are rejected as replays).
C2_AtMostOneSuccess ==
    \A w1, w2 \in Workers :
        (/\ w1 # w2
         /\ IsRefreshOk(resp[w1])
         /\ IsRefreshOk(resp[w2]))
        => resp[w1].presented # resp[w2].presented

\* The rotation calls that are still between revoking and creating.
Rotating == {loc[w].row : w \in {v \in Workers : pc[v] = "rt_create"}}

\* C3: rotation is atomic: every record that a rotation call has revoked, once
\* the call is over (returned or failed), has exactly one successor record.
C3_RotationAtomic ==
    \A i \in rotated \ Rotating :
        Cardinality({e \in lineage : e[1] = i}) = 1

\* C4: no record holds a raw refresh token: the token_hash of every record is
\* the hash of a refresh token that was handed to the principal, it is not a
\* token, and the lookup key of that token finds the record.
C4_OnlyHashStored ==
    \A i \in DOMAIN RefreshToken :
        /\ RefreshToken[i].token_hash \notin issued
        /\ \E t \in issued :
              /\ t.token_type = "refresh"
              /\ t.sub = RefreshToken[i].user
              /\ RefreshToken[i].token_hash = SHA256(t)
              /\ LookupHash(RefreshToken, LookupKey(t)) = i

\* Records exist, among them one made by a rotation.
C4_Witness ==
    \E e \in lineage : e[2] \in DOMAIN RefreshToken


Kinds == {"access", "refresh", "mfa_pending"}

\* C5: decode_token accepts a token only as the kind it claims, so handlers
\* past their token check hold a token of the kind they expect: rotation a
\* refresh token, JWTAuthentication an access token, the MFA verify step an
\* mfa-pending token.
C5_KindChecked ==
    /\ \A t \in TokenInputs, k \in Kinds :
          decode_token(t, k, now) = "ok" => t.token_type = k /\ t.sig = "ok"
    /\ \A t \in TokenInputs :
          t.token_type \in {"mfa_pending", "refresh"} =>
              authenticate(t, now) = NoUser
    /\ \A w \in Workers :
          /\ pc[w] \in {"rt_replay", "rt_save", "rt_create"} =>
                loc[w].token.token_type = "refresh"
          /\ pc[w] \in {"setup_save", "vs_save"} =>
                loc[w].token.token_type = "access"
          /\ loc[w].op = "mfa_verify" =>
                loc[w].token.token_type = "mfa_pending"
          /\ IsRefreshOk(resp[w]) => resp[w].presented.token_type = "refresh"
          /\ (resp[w].op \in {"mfa_setup", "verify_setup"}
                /\ resp[w].status = 200) =>
                resp[w].presented.token_type = "access"
          /\ (resp[w].op = "mfa_verify" /\ resp[w].status = 200) =>
                resp[w].presented.token_type = "mfa_pending"

\* A validly signed mfa-pending token was presented for rotation and rejected
\* for its kind.
C5_Witness ==
    \E w \in Workers :
        /\ resp[w].op = "refresh"
        /\ resp[w].status = 401
        /\ resp[w].detail = "mfa_pending"

\* C6: revoke_refresh_token revokes the matching live record and returns true;
\* on a revoked or absent record it returns false and changes nothing; a
\* second call changes nothing more; no other record is touched.
C6_Step(w, token) ==
    LogoutView_post(w, token) =>
        LET id == RowOf(token)
            live == id # 0 /\ ~RefreshToken[id].is_revoked
            again == revoke_refresh_token(RefreshToken', token)
        IN /\ resp'[w].result = live
           /\ RefreshToken' = IF live
                              THEN [RefreshToken EXCEPT ![id].is_revoked = TRUE]
                              ELSE RefreshToken
           /\ again.rows = RefreshToken'
           /\ ~again.updated

C6_Revoke ==
    [][\A w \in Workers, token \in TokenInputs : C6_Step(w, token)]_vars

\* A token was revoked by logout (true), and a second logout with the same
\* token returned false.
C6_Witness ==
    \E w1, w2 \in Workers :
        /\ resp[w1].op = "logout" /\ resp[w1].result
        /\ resp[w2].op = "logout" /\ ~resp[w2].result
        /\ resp[w1].presented = resp[w2].presented
        /\ RefreshToken[RowOf(resp[w1].presented)].is_revoked

\* C7: a password-only login of a principal whose MFA is enabled answers
\* "MFA required" with an mfa-pending token and nothing else: no access token,
\* no refresh token, no new record.
C7_Step(w, u) ==
    (/\ LoginView_post(w, u, TRUE, NoCode)
     /\ MFASettings[u].exists
     /\ MFASettings[u].is_enabled) =>
        /\ pc'[w] = "idle"
        /\ resp'[w].status = 200
        /\ resp'[w].mfa_required
        /\ resp'[w].mfa_pending_token.token_type = "mfa_pending"
        /\ resp'[w].mfa_pending_token.sub = u
        /\ resp'[w].access_token = NoToken
        /\ resp'[w].refresh_token = NoToken
        /\ RefreshToken' = RefreshToken
        /\ issued' \ issued \subseteq {resp'[w].mfa_pending_token}
        /\ \A t \in issued' \ issued :
              t.token_type \notin {"access", "refresh"}

C7_PasswordOnlyLogin ==
    [][\A w \in Workers, u \in Users : C7_Step(w, u)]_vars

\* A password-only login was answered "MFA required".
C7_Witness ==
    \E w \in Workers :
        /\ resp[w].op = "login"
        /\ resp[w].mfa_required
        /\ resp[w].mfa_pending_token.token_type = "mfa_pending"

\* The pending tokens the MFA verify step must accept, and the codes
\* verify_code must accept for user u, stated on the stored data.
PendingValid(token) ==
    /\ token \in issued
    /\ token.token_type = "mfa_pending"
    /\ token.exp > now
    /\ token.sub \in Users

CodeValid(u, code) ==
    LET m == MFASettings[u]
    IN /\ m.exists
       /\ m.is_enabled
       /\ \/ /\ code.kind = "totp"
             /\ m.secret_key = IF code.a = 0 THEN EmptyStr
                               ELSE [key |-> MASTER_ENCRYPTION_KEY,
                                     plain |-> code.a]
             /\ code.b \in {now - 1, now, now + 1}
          \/ \E i \in DOMAIN m.backup_codes :
                /\ m.backup_codes[i].hash = [sha256 |-> code]
                /\ ~m.backup_codes[i].used

\* C8, the verify step: it goes on to issue tokens exactly when the pending
\* token is valid and the code is valid for its principal; otherwise it
\* answers 401 and neither issues a token nor creates a record.
C8_Step(w, token, code) ==
    MFAVerifyView_post(w, token, code) =>
        IF PendingValid(token) /\ CodeValid(token.sub, code)
        THEN /\ pc'[w] \in {"vc_save", "issue"}
             /\ loc'[w].user = token.sub
             /\ loc'[w].mfa_verified
        ELSE /\ pc'[w] = "idle"
             /\ resp'[w].status = 401
             /\ resp'[w].access_token = NoToken
             /\ resp'[w].refresh_token = NoToken
             /\ RefreshToken' = RefreshToken
             /\ MFASettings' = MFASettings
             /\ issued' = issued

\* C8, the issue: the pair it issues is an access token with mfa_verified
\* and a refresh token with a live record, both of the principal.
C8_Issue(w) ==
    (pc[w] = "issue" /\ loc[w].op = "mfa_verify" /\ pc'[w] = "idle") =>
        /\ resp'[w].status = 200
        /\ resp'[w].access_token.token_type = "access"
        /\ resp'[w].access_token.sub = loc[w].user
        /\ resp'[w].access_token.mfa_verified
        /\ resp'[w].refresh_token.token_type = "refresh"
        /\ resp'[w].refresh_token.sub = loc[w].user
        /\ Len(RefreshToken') = Len(RefreshToken) + 1
        /\ RefreshToken'[Len(RefreshToken')].token_hash =
              SHA256(resp'[w].refresh_token)
        /\ ~RefreshToken'[Len(RefreshToken')].is_revoked

C8_MFAVerify ==
    [][/\ \A w \in Workers, token \in TokenInputs, code \in CodeInputs :
             C8_Step(w, token, code)
       /\ \A w \in Workers : C8_Issue(w)]_vars

\* The verify step accepted a backup code and issued an access token with
\* mfa_verified.
C8_Witness ==
    \E w \in Workers :
        /\ resp[w].op = "mfa_verify"
        /\ resp[w].status = 200
        /\ resp[w].code.kind = "backup"
        /\ resp[w].access_token.mfa_verified

\* C9: when requests do not overlap, a backup code that verify_code has
\* consumed is rejected by verify_code for as long as its hash is stored.
C9_BackupCodeSingleUse ==
    \A e \in spent :
        (\E i \in DOMAIN MFASettings[e[1]].backup_codes :
            MFASettings[e[1]].backup_codes[i].hash = SHA256(e[2]))
        => ~verify_code(MFASettings[e[1]], e[2], now).ok

\* A consumed backup code was submitted again and rejected.
C9_Witness ==
    \E w \in Workers, e \in spent :
        /\ resp[w].error = "Invalid MFA code"
        /\ resp[w].user = e[1]
        /\ resp[w].code = e[2]
        /\ \E i \in DOMAIN MFASettings[e[1]].backup_codes :
              MFASettings[e[1]].backup_codes[i].hash = SHA256(e[2])

\* C10: no backup code is consumed by more than one verify_code call.
C10_SingleSpend ==
    \A e \in spent : e[3] = 1


\* C11: regenerate_backup_codes given a backup code fails: the response is a
\* failure without codes, the stored MFA rows are unchanged (the backup code
\* is not consumed), and no save is pending.
C11_Step(w, token, code) ==
    (MFABackupCodesView_post(w, token, code) /\ code.kind = "backup") =>
        /\ pc'[w] = "idle"
        /\ resp'[w].status \in {400, 401}
        /\ ~resp'[w].result
        /\ resp'[w].batch = 0
        /\ MFASettings' = MFASettings
        /\ batches' = batches
        /\ spent' = spent

C11_RegenerateRejectsBackupCode ==
    [][\A w \in Workers, token \in TokenInputs, code \in CodeInputs :
          C11_Step(w, token, code)]_vars

\* regenerate_backup_codes rejected a backup code that verify_code would
\* accept, and the code is still unused.
C11_Witness ==
    \E w \in Workers :
        /\ resp[w].op = "mfa_backup_codes"
        /\ resp[w].status = 400
        /\ resp[w].code.kind = "backup"
        /\ MFASettings[resp[w].user].is_enabled
        /\ BackupMatches(MFASettings[resp[w].user], resp[w].code) # {}


\* The save of regenerate_backup_codes stores exactly the codes it returns,
\* hashed and unused.
C12_Save ==
    [][\A w \in Workers :
          (pc[w] = "regen_save" /\ pc'[w] = "idle") =>
              /\ resp'[w].status = 200
              /\ resp'[w].batch \notin batches
              /\ MFASettings'[loc[w].user].backup_codes =
                    [i \in 1..BACKUP_CODE_COUNT |->
                        [hash |-> SHA256(BackupCode(resp'[w].batch, i)),
                         used |-> FALSE]]]_vars

\* C12: once regenerate_backup_codes has succeeded, no code of the set it
\* replaced is accepted by verify_code any more.
C12_ReplacedEntirely ==
    \A e \in replaced :
        ~(/\ MFASettings[e[1]].is_enabled
          /\ \E i \in DOMAIN MFASettings[e[1]].backup_codes :
                /\ MFASettings[e[1]].backup_codes[i].hash = e[2]
                /\ ~MFASettings[e[1]].backup_codes[i].used)


\* The principal has no MFA config, or one that is not enabled.
NotEnabled(u) == ~MFASettings[u].exists \/ ~MFASettings[u].is_enabled

\* C13, the function: on an absent or disabled config verify_code returns
\* false for every code, reaches no save and leaves its row as loaded.
C13_Function ==
    \A u \in Users, code \in CodeInputs :
        NotEnabled(u) =>
            LET v == verify_code(MFASettings[u], code, now)
            IN ~v.ok /\ ~v.dirty /\ v.mfa = MFASettings[u]

\* C13, the callers: a verify step or a disable_mfa on an absent or disabled
\* config is rejected at once, and the stored MFA rows are unchanged.
C13_Step(w, token, code) ==
    /\ (PendingValid(token) /\ NotEnabled(token.sub)
          /\ MFAVerifyView_post(w, token, code)) =>
           /\ pc'[w] = "idle"
           /\ resp'[w].status = 401
           /\ MFASettings' = MFASettings
           /\ spent' = spent
    /\ (authenticate(token, now) # NoUser
          /\ NotEnabled(authenticate(token, now))
          /\ MFADisableView_post(w, token, code)) =>
           /\ pc'[w] = "idle"
           /\ resp'[w].status = 400
           /\ MFASettings' = MFASettings
           /\ spent' = spent

\* C13: verify_code returns false whenever the principal's MFA config is
\* absent or not enabled, and then it neither consumes a backup code nor
\* changes the stored set.
C13_DisabledConfig ==
    /\ []C13_Function
    /\ [][\A w \in Workers, token \in TokenInputs, code \in CodeInputs :
             C13_Step(w, token, code)]_vars

\* disable_mfa was refused on a config that is not enabled although the code
\* presented is one of its stored, unused backup codes.
C13_Witness ==
    \E w \in Workers :
        /\ resp[w].op = "mfa_disable"
        /\ resp[w].status = 400
        /\ resp[w].code.kind = "backup"
        /\ MFASettings[resp[w].user].exists
        /\ ~MFASettings[resp[w].user].is_enabled
        /\ BackupMatches(MFASettings[resp[w].user], resp[w].code) # {}


\* C14: an enabled MFA config has a non-empty encrypted seed and a
\* verification time.
C14_EnabledHasSeed ==
    \A u \in Users :
        MFASettings[u].is_enabled =>
            /\ MFASettings[u].secret_key # EmptyStr
            /\ MFASettings[u].verified_at # -1


\* The stored seed of u accepts code as a time-based code.
SeedAccepts(u, code) ==
    /\ MFASettings[u].exists
    /\ totp_verify(decrypt_field(MFASettings[u].secret_key), code, now)

\* C15, setup: the save of setup_mfa leaves the config disabled.
C15_Setup(w) ==
    (pc[w] = "setup_save" /\ pc'[w] = "idle") =>
        ~MFASettings'[loc[w].user].is_enabled

\* C15, enabling: the enabled flag of a principal goes from false to true
\* only in the save of a verify_setup call of that principal whose code is a
\* valid time-based code for the seed stored at that moment.
C15_Flip(u) ==
    (~MFASettings[u].is_enabled /\ MFASettings'[u].is_enabled) =>
        \E w \in Workers :
            /\ pc[w] = "vs_save"
            /\ pc'[w] = "idle"
            /\ loc[w].user = u
            /\ SeedAccepts(u, loc[w].code)

\* C15, failure: a verify_setup whose code the stored seed does not accept
\* returns failure and leaves the config unchanged.
C15_Invalid(w, token, code) ==
    (/\ MFAVerifySetupView_post(w, token, code)
     /\ authenticate(token, now) # NoUser
     /\ ~SeedAccepts(authenticate(token, now), code)) =>
        /\ pc'[w] = "idle"
        /\ resp'[w].status = 400
        /\ MFASettings' = MFASettings

\* C15: setup_mfa leaves the config disabled, only a verify_setup with a
\* valid time-based code for the stored seed enables it, and a verify_setup
\* with an invalid code fails and changes nothing.
C15_EnabledOnlyByVerifySetup ==
    [][/\ \A w \in Workers : C15_Setup(w)
       /\ \A u \in Users : C15_Flip(u)
       /\ \A w \in Workers, token \in TokenInputs, code \in CodeInputs :
             C15_Invalid(w, token, code)]_vars

\* The three parts of C15 one at a time.
C15_SetupOnly == [][\A w \in Workers : C15_Setup(w)]_vars
C15_FlipOnly == [][\A u \in Users : C15_Flip(u)]_vars
C15_InvalidOnly ==
    [][\A w \in Workers, token \in TokenInputs, code \in CodeInputs :
          C15_Invalid(w, token, code)]_vars


\* C16, first confirmation: a verify_setup with a valid code on a config that
\* is not enabled goes on to save a fresh set of backup codes; on an enabled
\* config it generates none.
C16_First(w, token, code) ==
    (/\ MFAVerifySetupView_post(w, token, code)
     /\ authenticate(token, now) # NoUser
     /\ SeedAccepts(authenticate(token, now), code)) =>
        /\ pc'[w] = "vs_save"
        /\ IF MFASettings[authenticate(token, now)].is_enabled
           THEN loc'[w].batch = 0
           ELSE loc'[w].batch # 0 /\ loc'[w].batch \notin batches

\* C16, the save: the response carries exactly 10 codes, the row holds
\* exactly 10 entries, the i-th being the hash of the i-th code, unused, and
\* no entry holds a code.
C16_Save(w) ==
    (pc[w] = "vs_save" /\ loc[w].batch # 0 /\ pc'[w] = "idle") =>
        LET codes == generate_backup_codes(resp'[w].batch)
            stored == MFASettings'[loc[w].user].backup_codes
        IN /\ resp'[w].status = 200
           /\ resp'[w].batch = loc[w].batch
           /\ Len(codes) = 10
           /\ Cardinality({codes[i] : i \in 1..10}) = 10
           /\ Len(stored) = 10
           /\ \A i \in 1..10 :
                 /\ stored[i] = [hash |-> [sha256 |-> codes[i]], used |-> FALSE]
                 /\ \A j \in 1..10 : stored[i].hash # codes[j]

\* C16: the first successful verify_setup after enrollment returns exactly 10
\* backup codes and stores exactly their 10 hashes, unused, and no plaintext.
C16_TenHashedCodes ==
    [][/\ \A w \in Workers, token \in TokenInputs, code \in CodeInputs :
             C16_First(w, token, code)
       /\ \A w \in Workers : C16_Save(w)]_vars

\* A principal enrolled: setup_mfa handed out a seed, and verify_setup with
\* its code returned a set of backup codes, which is the stored one.
C16_Witness ==
    \E w \in Workers :
        /\ resp[w].op = "verify_setup"
        /\ resp[w].status = 200
        /\ resp[w].batch # 0
        /\ resp[w].code.a \in secrets
        /\ MFASettings[resp[w].user].is_enabled
        /\ MFASettings[resp[w].user].backup_codes =
              hashed_backup_codes(generate_backup_codes(resp[w].batch))


\* The config of u is cleared: no seed, no backup codes, not enabled.
IsCleared(u) ==
    /\ ~MFASettings[u].is_enabled
    /\ MFASettings[u].secret_key = EmptyStr
    /\ MFASettings[u].backup_codes = <<>>

\* C17, the check: disable_mfa goes on exactly when the code is valid for
\* the principal; otherwise it answers failure and changes nothing.
C17_Check(w, token, code) ==
    (MFADisableView_post(w, token, code) /\ authenticate(token, now) # NoUser)
    => IF CodeValid(authenticate(token, now), code)
       THEN pc'[w] \in {"vc_save", "dis_save"}
       ELSE /\ pc'[w] = "idle"
            /\ resp'[w].status = 400
            /\ ~resp'[w].result
            /\ MFASettings' = MFASettings

\* C17, the save: it leaves the config cleared and answers success.
C17_Save(w) ==
    (pc[w] = "dis_save" /\ pc'[w] = "idle") =>
        /\ resp'[w].status = 200
        /\ resp'[w].result
        /\ MFASettings'[loc[w].user].exists
        /\ ~MFASettings'[loc[w].user].is_enabled
        /\ MFASettings'[loc[w].user].secret_key = EmptyStr
        /\ MFASettings'[loc[w].user].backup_codes = <<>>
        /\ \A u \in Users \ {loc[w].user} : MFASettings'[u] = MFASettings[u]

\* C17: disable_mfa with a valid code clears the seed, the backup codes and
\* the enabled flag; with an invalid code it fails and changes nothing; on a
\* cleared config (a retry) every code is invalid, so the config stays
\* cleared.
C17_Disable ==
    [][/\ \A w \in Workers, token \in TokenInputs, code \in CodeInputs :
             C17_Check(w, token, code)
       /\ \A w \in Workers : C17_Save(w)]_vars

\* A disable_mfa was retried on the cleared config with a code that a seed or
\* batch of the principal once accepted; it was refused and the config is
\* still cleared.
C17_Witness ==
    \E w \in Workers :
        /\ resp[w].op = "mfa_disable"
        /\ resp[w].status = 400
        /\ resp[w].code # WrongCode
        /\ resp[w].code.a # 0
        /\ MFASettings[resp[w].user].exists
        /\ IsCleared(resp[w].user)


\* C18, the save of setup_mfa: the stored seed is the one this call hands
\* out, whatever seed was stored before, and the code of no other seed that
\* was handed out passes for it.
C18_Save(w) ==
    (pc[w] = "setup_save" /\ pc'[w] = "idle") =>
        /\ resp'[w].status = 200
        /\ resp'[w].secret \notin secrets
        /\ MFASettings'[loc[w].user].secret_key =
              [key |-> MASTER_ENCRYPTION_KEY, plain |-> resp'[w].secret]
        /\ \A s \in secrets \cup {0} :
              ~totp_verify(decrypt_field(MFASettings'[loc[w].user].secret_key),
                           TotpCode(s, now), now)

\* C18, verify_setup: a time-based code of a seed other than the stored one
\* is refused, and nothing changes.
C18_Verify(w, token, code) ==
    (/\ MFAVerifySetupView_post(w, token, code)
     /\ authenticate(token, now) # NoUser
     /\ code.kind = "totp"
     /\ MFASettings[authenticate(token, now)].secret_key #
           IF code.a = 0 THEN EmptyStr
           ELSE [key |-> MASTER_ENCRYPTION_KEY, plain |-> code.a]) =>
        /\ pc'[w] = "idle"
        /\ resp'[w].status = 400
        /\ MFASettings' = MFASettings

\* C18: a second setup_mfa replaces the seed of the first, and verify_setup
\* refuses a code that is valid for the first seed only.
C18_ReEnroll ==
    [][/\ \A w \in Workers : C18_Save(w)
       /\ \A w \in Workers, token \in TokenInputs, code \in CodeInputs :
             C18_Verify(w, token, code)]_vars

\* Two seeds were handed out, the second is the stored one and the config is
\* not verified; verify_setup refused the code of the first.
C18_Witness ==
    \E w \in Workers, s \in secrets :
        /\ resp[w].op = "verify_setup"
        /\ resp[w].status = 400
        /\ resp[w].code.kind = "totp"
        /\ resp[w].code.a \in secrets \ {s}
        /\ MFASettings[resp[w].user].secret_key =
              [key |-> MASTER_ENCRYPTION_KEY, plain |-> s]
        /\ ~MFASettings[resp[w].user].is_enabled
        /\ MFASettings[resp[w].user].verified_at = -1
        /\ MFASettings[resp[w].user].backup_codes = <<>>

----
(* crypto.py *)

\* encrypt_field(p) with IV iv, then decrypt_field of what it returned, in
\* the current state of the module: both return, and the second returns p.
RoundTrip(p, iv) ==
    LET e == crypto_encrypt_field(cipher, encryption_key, iv, p)
    IN  /\ e.raised = ""
        /\ LET d == crypto_decrypt_field(e.cipher, encryption_key, e.token)
           IN  d.raised = "" /\ d.text = p

\* The plaintexts str.encode() accepts.
Encodable == {p \in Plaintexts : utf8_encode(p) # EncodeError}

C19_Function ==
    encryption_key \in FernetKeys =>
        \A p \in Plaintexts, iv \in IVs :
            IF p \in Encodable THEN RoundTrip(p, iv)
            ELSE LET e == crypto_encrypt_field(cipher, encryption_key, iv, p)
                 IN  /\ e.raised = "CryptoError"
                     /\ e.message = "Encryption failed"
                     /\ e.token = EmptyCiphertext

C19_Step ==
    (/\ crypto.fn = "encrypt_field"
     /\ crypto.raised = ""
     /\ cipher = crypto.cipher
     /\ call_decrypt_field(crypto.token))
        => crypto'.raised = "" /\ crypto'.text = crypto.plaintext

KeyInUse == get_cipher(cipher, encryption_key).cipher

\* What encrypt_field can return in the current state of the module.
Produced ==
    {crypto_encrypt_field(cipher, encryption_key, iv, p).token :
         p \in Plaintexts, iv \in IVs}

\* Non-empty strings that encrypt_field does not produce under the key in
\* use: no token at all, a token of another key, a token tampered with, a
\* token whose bytes are no text.
NotProduced == (CiphertextInputs \ Produced) \ {EmptyCiphertext}

FailsClosed(d) ==
    d.raised = "CryptoError" /\ d.text = <<>> /\ d.token = EmptyCiphertext

C20_Function ==
    \A c \in NotProduced :
        FailsClosed(crypto_decrypt_field(cipher, encryption_key, c))

\* A call of decrypt_field that does not fail closed was given none of
\* these strings.
C20_Step ==
    (/\ crypto'.fn = "decrypt_field"
     /\ ~FailsClosed(crypto')
     /\ call_decrypt_field(crypto'.ciphertext))
        => crypto'.ciphertext \notin NotProduced

\* C20: decrypt_field of a non-empty string that encrypt_field does not
\* produce under the key in use (malformed, of another key, tampered with)
\* raises CryptoError and returns no plaintext, in every state of the
\* module and in every call.
C20_FailsClosed == []C20_Function /\ [][C20_Step]_vars

\* decrypt_field has rejected a token of the key in use that was tampered
\* with.
C20_Witness ==
    /\ crypto.fn = "decrypt_field"
    /\ crypto.raised = "CryptoError"
    /\ crypto.ciphertext.mac = "tampered"
    /\ crypto.ciphertext.key = cipher
    /\ utf8_decode(crypto.ciphertext.data) # DecodeError

\* "" was returned for "", and the module's cipher cache was not touched.
PassThrough(r, cached) ==
    /\ r.raised = ""
    /\ r.text = <<>>
    /\ r.token = EmptyCiphertext
    /\ r.cipher = cached

C21_Function ==
    /\ \A iv \in IVs :
           PassThrough(crypto_encrypt_field(cipher, encryption_key, iv, <<>>),
                       cipher)
    /\ PassThrough(crypto_decrypt_field(cipher, encryption_key,
                                        EmptyCiphertext), cipher)

C21_Step ==
    /\ \A iv \in IVs :
           call_encrypt_field(<<>>, iv) =>
               PassThrough(crypto', cipher) /\ cipher' = cipher
    /\ call_decrypt_field(EmptyCiphertext) =>
           PassThrough(crypto', cipher) /\ cipher' = cipher

\* C21: encrypt_field("") returns "" and decrypt_field("") returns "",
\* without raising and without touching the cipher, whatever the key setting
\* and the cached cipher are.
C21_EmptyPassThrough == []C21_Function /\ [][C21_Step]_vars

\* decrypt_field("") has returned "" in a process that has no key and no
\* cipher.
C21_Witness ==
    /\ encryption_key = NoKey
    /\ cipher = NoCipher
    /\ crypto.fn = "decrypt_field"
    /\ crypto.ciphertext = EmptyCiphertext
    /\ crypto.raised = ""
    /\ crypto.text = <<>>

NotConfigured(r) ==
    /\ r.raised = "CryptoError"
    /\ r.message = "MASTER_ENCRYPTION_KEY not configured"
    /\ r.text = <<>>
    /\ r.token = EmptyCiphertext
    /\ r.cipher = NoCipher

C22_Function ==
    (encryption_key = NoKey /\ cipher = NoCipher) =>
        /\ \A p \in Plaintexts \ {<<>>}, iv \in IVs :
               NotConfigured(
                   crypto_encrypt_field(cipher, encryption_key, iv, p))
        /\ \A c \in CiphertextInputs \ {EmptyCiphertext} :
               NotConfigured(crypto_decrypt_field(cipher, encryption_key, c))

C22_Step ==
    (encryption_key = NoKey /\ cipher = NoCipher) =>
        /\ \A p \in Plaintexts \ {<<>>}, iv \in IVs :
               call_encrypt_field(p, iv) => NotConfigured(crypto')
        /\ (/\ crypto'.fn = "decrypt_field"
            /\ crypto'.ciphertext # EmptyCiphertext
            /\ call_decrypt_field(crypto'.ciphertext))
               => NotConfigured(crypto')

C23_NotReadySurfaced ==
    (health # NoHealth /\ ~health.crypto.ready) =>
        health.status = "not ready" /\ health.code = 503

\* C24: in every state reached by key-configuration changes and cipher
\* calls, the status query answers ready exactly when a valid key is
\* configured at that moment, and never ready while not configured.
C24_ReadyIffValidKey ==
    LET st == get_crypto_status(cipher, encryption_key)
    IN  /\ st.ready <=> encryption_key \in FernetKeys
        /\ ~st.configured => ~st.ready

----
(* Rejections and expiry *)

\* The response is the rejection of a refresh request or of an access token.
IsTokenRejection(r) == r.op \in {"refresh", "auth"} /\ r.status = 401

\* C25: any two rejections of a refresh request or of an access token carry
\* the same error, so the response does not tell why the token was refused.
C25_GenericRejection ==
    \A w \in Workers, v \in Workers :
        (IsTokenRejection(resp[w]) /\ IsTokenRejection(resp[v])) =>
            /\ resp[w].error = resp[v].error
            /\ resp[w].detail = resp[v].detail

\* C26, the function: a validly signed token is "expired" for decode_token,
\* whatever kind is expected, once the clock is past its exp, and is never
\* "expired" before its exp.
C26_Function ==
    \A token \in TokenInputs, kind \in Kinds :
        token.sig = "ok" =>
            /\ token.exp < now => decode_token(token, kind, now) = "expired"
            /\ token.exp > now => decode_token(token, kind, now) # "expired"

\* C26, the callers: refresh_tokens and JWTAuthentication answer an expired
\* token with their "has expired" message and change nothing (the token's
\* row is still stored: nothing evicts it), and never give that answer to a
\* token presented before its exp.
C26_Step(w, token) ==
    /\ (token.sig = "ok" /\ token.exp < now /\ refresh_tokens_get(w, token))
           => /\ resp'[w] = Error("refresh", 401, "Refresh token has expired")
              /\ pc'[w] = "idle"
              /\ RefreshToken' = RefreshToken
    /\ (token.sig = "ok" /\ token.exp < now /\ MFASetupView_post(w, token))
           => /\ resp'[w] = Error("auth", 401, "Token has expired")
              /\ pc'[w] = "idle"
              /\ MFASettings' = MFASettings
    /\ (token.exp > now /\ refresh_tokens_get(w, token))
           => ~(/\ pc'[w] = "idle"
                /\ resp'[w].error = "Refresh token has expired")
    /\ (token.exp > now /\ MFASetupView_post(w, token))
           => ~(pc'[w] = "idle" /\ resp'[w].error = "Token has expired")

\* C26: a validly signed token presented when the clock is past its expiry
\* is rejected as expired, by the comparison of its exp with the clock alone,
\* and a token presented before its expiry is never rejected as expired.
C26_ExpiredByTimestamp ==
    /\ []C26_Function
    /\ [][\A w \in Workers, token \in TokenInputs : C26_Step(w, token)]_vars

\* A refresh request was rejected as expired after the refresh lifetime had
\* passed, and the row of every token handed out is still stored.
C26_Witness ==
    /\ now > JWT_REFRESH_TOKEN_LIFETIME
    /\ \E w \in Workers :
           resp[w] = Error("refresh", 401, "Refresh token has expired")
    /\ \A token \in issued :
           token.token_type = "refresh" =>
               LookupHash(RefreshToken, LookupKey(token)) # 0

----
(* The audit log *)

\* The operations the Audit Chain is to record.
Audited == {"login", "mfa_verify", "refresh", "logout"}

\* C27: every step of login, MFA verification, token rotation and
\* revocation, successful or rejected, appends an audit entry: when a handler
\* returns the response of such an operation, the audit log has grown.
C27_EveryStepAudited ==
    [][\A w \in Workers :
           (pc[w] # pc'[w] /\ pc'[w] = "idle" /\ resp'[w].op \in Audited)
               => Len(AuditLogEntry') > Len(AuditLogEntry)]_vars

\* C28: under any interleaving of appends, the sequence numbers of a tenant's
\* entries are 1..n without duplicate or gap, grow in the order of insertion,
\* and every entry carries as previous_hash the hash of the committed entry
\* one before it (the genesis constant for the first).
C28_Linearized ==
    \A t \in Tenants :
        LET R == RowsOf(AuditLogEntry, t)
        IN  /\ \A i \in R, j \in R :
                   i < j => AuditLogEntry[i].sequence < AuditLogEntry[j].sequence
            /\ {AuditLogEntry[i].sequence : i \in R} = 1..Cardinality(R)
            /\ \A i \in R :
                   IF AuditLogEntry[i].sequence = 1
                   THEN AuditLogEntry[i].previous_hash = GENESIS_HASH
                   ELSE \E j \in R :
                            /\ j < i
                            /\ AuditLogEntry[j].sequence
                                   = AuditLogEntry[i].sequence - 1
                            /\ AuditLogEntry[i].previous_hash
                                   = AuditLogEntry[j].entry_hash

\* Two appends are in flight at once while a tenant already has an entry.
C28_Witness ==
    /\ Cardinality(InFlight) = 2
    /\ Len(AuditLogEntry) >= 1

C30_Step ==
    \A i \in DOMAIN AuditLogEntry :
        i \in DOMAIN AuditLogEntry' /\ AuditLogEntry'[i] = AuditLogEntry[i]

\* C30: no step of the program changes or removes a stored audit entry, and
\* the admin site answers every add, change and delete of an audit entry
\* with a denial.
C30_WriteOnce == [](admin.status \in {0, 403}) /\ [][C30_Step]_vars

\* A superuser asked the admin site to delete a stored entry and was denied.
C30_Witness ==
    /\ admin = [op |-> "delete", user |-> "superuser", status |-> 403]
    /\ Len(AuditLogEntry) >= 1

\* After appends alone every stored entry_hash is the hash recomputed from
\* the entry's stored fields and its predecessor's hash, and the chain of
\* every tenant verifies.
C29_Recomputes ==
    tampered = NoTamper =>
        \A t \in Tenants :
            /\ \A i \in RowsOf(AuditLogEntry, t) :
                   LET e == AuditLogEntry[i]
                   IN  /\ e.entry_hash = Recomputed(e)
                       /\ e.previous_hash =
                            IF e.sequence = 1 THEN GENESIS_HASH
                            ELSE LastHash(SubSeq(AuditLogEntry, 1, i - 1), t)
            /\ verify_chain(AuditLogEntry, t, 1,
                            LastSequence(AuditLogEntry, t)) = 0

\* verify_chain was called, after the change, for a range of the changed
\* entry's tenant that holds the entry's number.
Covers(c, x) ==
    /\ c.tenant = x.tenant
    /\ c.from_seq <= x.sequence
    /\ x.sequence <= c.to_seq

\* A deleted or reordered entry is reported as a violation.
C29_GapReported ==
    (tampered.field \in {"deleted", "reordered"} /\ Covers(chain, tampered))
        => chain.result # 0

ChainedFields ==
    AuditFields \ {"sequence", "ip_address", "user_agent"}

----
(* The ML engine *)

\* Every file of the model directory loads, and both stage files hold a
\* classifier.
Loadable(dir) ==
    /\ dir.stage1.file \notin {"missing", "corrupt"}
    /\ dir.stage2.file \notin {"missing", "corrupt"}
    /\ dir.thresholds.file = "json"
    /\ dir.version # "corrupt"

StagesLoaded(dir) ==
    /\ dir.stage1.file = "classifier"
    /\ dir.stage2.file = "classifier"

C32_Step ==
    \A cbc_dict \in CbcInputs :
        (~(Loadable(model_dir) /\ StagesLoaded(model_dir))
             /\ predict_async(cbc_dict))
            => prediction' =
                   [NoPrediction EXCEPT !.raised = "MLModelNotReadyError"]

\* C32: predict raises MLModelNotReadyError and returns no classification
\* whenever the engine is not ready; is_ready is true only if the load
\* succeeded and both stage models are loaded; a failed load leaves the
\* engine not ready with the load error recorded.
C32_FailsClosed ==
    /\ [](engine.built =>
            /\ is_ready(engine)
                   => (Loadable(model_dir) /\ StagesLoaded(model_dir))
            /\ ~Loadable(model_dir)
                   => (~is_ready(engine) /\ engine.load_error # NoError))
    /\ [][C32_Step]_vars

\* predict has raised MLModelNotReadyError on an engine whose first stage
\* was loaded before a later file failed to load.
C32_Witness ==
    /\ prediction.raised = "MLModelNotReadyError"
    /\ engine.built
    /\ engine.stage1.file = "classifier"
    /\ engine.load_error # NoError

----
(* Deactivated principals *)

\* The handler of worker w has answered 401 in this step.
Rejected(w) == pc'[w] = "idle" /\ resp'[w].status = 401

Inactive(u) == u \in Users /\ ~User[u].is_active

\* C31: once a principal is inactive, refresh_tokens rejects every refresh
\* token issued to it, and neither login nor the MFA verify step goes on to
\* issue tokens to it.
C31_InactiveRejected ==
    [][\A w \in Workers :
         /\ \A token \in TokenInputs :
                (Inactive(token.sub) /\ token.token_type = "refresh"
                     /\ refresh_tokens_get(w, token)) => Rejected(w)
         /\ \A u \in Users, p \in PasswordInputs, c \in LoginCodeInputs :
                (Inactive(u) /\ LoginView_post(w, u, p, c)) => Rejected(w)
         /\ \A token \in TokenInputs, c \in CodeInputs :
                (Inactive(token.sub) /\ token.token_type = "mfa_pending"
                     /\ MFAVerifyView_post(w, token, c)) => Rejected(w)]_vars

----
(* The records of refresh tokens *)

\* Another request has already revoked the token: a rotation that exchanged
\* it, or a logout that found it unrevoked.
RevokedElsewhere(w, token) ==
    \E v \in Workers \ {w} :
        /\ resp[v].presented = token
        /\ resp[v].status = 200
        /\ \/ resp[v].op = "refresh"
           \/ resp[v].op = "logout" /\ resp[v].result

\* C33: a record that is revoked stays revoked, and a token that has been
\* revoked is not exchanged for new tokens.
C33_RevokedTerminal ==
    [][/\ \A id \in DOMAIN RefreshToken :
              RefreshToken[id].is_revoked =>
                  /\ id \in DOMAIN RefreshToken'
                  /\ RefreshToken'[id].is_revoked
       /\ \A w \in Workers :
              (pc[w] = "rt_create" /\ RevokedElsewhere(w, loc[w].token))
                  => ~refresh_tokens_create(w)]_vars

\* refresh_tokens rejects the token for a reason other than replay: the
\* signature, the kind, the expiry, or no stored record.
NotReplayRejection(token) ==
    \/ token.sig # "ok"
    \/ token.exp <= now
    \/ token.token_type # "refresh"
    \/ \A id \in DOMAIN RefreshToken :
           RefreshToken[id].token_hash # SHA256(token)

C34_Step(w, token) ==
    (NotReplayRejection(token) /\ refresh_tokens_get(w, token)) =>
        /\ pc'[w] = "idle"
        /\ resp'[w].op = "refresh"
        /\ resp'[w].status = 401
        /\ resp'[w].error # "Token has been revoked"
        /\ RefreshToken' = RefreshToken

\* C34: a refresh_tokens call with a token that has a bad signature, the
\* wrong kind, is expired or has no stored record ends with the rejection
\* and leaves every record as it was, creating none.
C34_RejectionChangesNothing ==
    [][\A w \in Workers, token \in TokenInputs \cup {OrphanToken} :
           C34_Step(w, token)]_vars

\* A validly signed, unexpired refresh token without a stored record was
\* rejected while records of other tokens are stored.
C34_Witness ==
    /\ RefreshToken # <<>>
    /\ now < OrphanToken.exp
    /\ \E w \in Workers :
           resp[w] = Error("refresh", 401, "Refresh token not found")

----
(* The MFA configuration under re-confirmation, setup and disabling *)

\* C35: a successful verify_setup on a config that it found enabled returns
\* no backup codes, and its save leaves the stored backup codes, hashes and
\* used flags, as they are.
C35_ReconfirmationKeepsCodes ==
    [][\A w \in Workers :
          (pc[w] = "vs_save" /\ loc[w].batch = 0 /\ verify_setup_save(w)) =>
              /\ resp'[w].status = 200
              /\ resp'[w].batch = 0
              /\ MFASettings'[loc[w].user].backup_codes =
                     MFASettings[loc[w].user].backup_codes]_vars

\* C36: the enabled flag of a principal goes from true to false only in the
\* save of a disable_mfa of that principal, which follows the check of a
\* valid code.
C36_DisabledOnlyByDisable ==
    [][\A u \in Users :
          (MFASettings[u].is_enabled /\ ~MFASettings'[u].is_enabled) =>
              \E w \in Workers :
                  /\ pc[w] = "dis_save"
                  /\ loc[w].user = u
                  /\ disable_mfa_save(w)]_vars

----
(* The MFA flag of access tokens *)

RECURSIVE LineageStart(_)
\* The record that the login of a record's lineage inserted: the record
\* itself, or the start of the record it was rotated from.
LineageStart(id) ==
    IF \E e \in lineage : e[2] = id
    THEN LineageStart((CHOOSE e \in lineage : e[2] = id)[1])
    ELSE id

\* mfa_verified of the access token issued at the login that started the
\* lineage of record id.
VerifiedAtLogin(id) == <<LineageStart(id), TRUE>> \in started

\* C37: a login issues an access token with mfa_verified only after the
\* principal passed verify_code in it, and the access token that
\* refresh_tokens issues has the mfa_verified of the access token issued at
\* the login that started the lineage of the token presented.
C37_MfaFlagFollowsLogin ==
    [][\A w \in Workers :
          /\ (pc[w] = "issue" /\ loc[w].mfa_verified /\ issue_tokens(w)) =>
                 loc[w].code # NoCode
          /\ (pc[w] = "rt_create" /\ refresh_tokens_create(w)) =>
                 resp'[w].access_token.mfa_verified =
                     VerifiedAtLogin(loc[w].row)]_vars

----
(* Concurrent calls on one MFA configuration *)

\* The entry of code in the stored backup codes of u is marked used, if
\* there is one.
MarkedUsed(rows, u, code) ==
    \A i \in DOMAIN rows[u].backup_codes :
        rows[u].backup_codes[i].hash = SHA256(code) =>
            rows[u].backup_codes[i].used

\* C38: when a verify_code call that accepted a backup code has saved, every
\* backup code of the principal that a verify_code call accepted and saved
\* is marked used in the stored set, also the code of a concurrent call.
C38_NoLostUse ==
    [][\A w \in Workers :
          (pc[w] = "vc_save" /\ verify_code_save(w)) =>
              \A e \in spent' :
                  e[1] = loc[w].user =>
                      MarkedUsed(MFASettings', e[1], e[2])]_vars

\* disable_mfa has answered success for u and no setup_mfa of u has saved
\* since: the last response that a disable_mfa or a setup_mfa of u left.
Disabled(u) ==
    /\ \E w \in Workers :
           /\ resp[w].op = "mfa_disable"
           /\ resp[w].status = 200
           /\ resp[w].user = u
    /\ \A w \in Workers :
           ~(resp[w].op = "mfa_setup" /\ resp[w].status = 200
                /\ resp[w].user = u)

\* C39: after disable_mfa has answered success, the config stays cleared
\* (not enabled, no seed, no backup codes) until a setup_mfa of the
\* principal saves, whatever calls that began before the disable do.
C39_StaysCleared ==
    [][\A u \in Users :
          (Disabled(u) /\ IsCleared(u) /\ ~IsCleared(u)') =>
              \E w \in Workers :
                  /\ pc[w] = "setup_save"
                  /\ loc[w].user = u
                  /\ setup_mfa_save(w)]_vars

----
(* Replay detection against a rotation in progress *)

\* C40: once the cascading revocation of a replay has run, a rotation that
\* had presented one of the records it revoked does not go on to issue a
\* new refresh token: no unrevoked record of the principal is left when
\* both calls have finished.
C40_CascadeCoversRotation ==
    [][\A w \in Workers :
          (pc[w] = "rt_create" /\ loc[w].row \in cascaded) =>
              ~refresh_tokens_create(w)]_vars

=============================================================================
